---------------------------- MODULE Spec2Model ----------------------------
(***************************************************************************)
(* Model of the postback intake-and-delivery pipeline of the deposit bot:  *)
(* WebhookController.processPostback with its dedup cache and sweep timer, *)
(* the status classifier, the channel classifier, the fallback resolver    *)
(* and the notification broadcast.                                         *)
(*                                                                         *)
(* Strings the code inspects character by character (status, from, subid,  *)
(* geo) are sequences of one-character strings; strings the code only      *)
(* copies are TLA+ strings.                                                *)
(***************************************************************************)
EXTENDS Integers, Sequences, FiniteSets, TLC

(***************************************************************************)
(* Bounds of the model.                                                    *)
(***************************************************************************)
\* number of clock advances in one behaviour
MaxTicks == 2
\* number of bot owners in config.owners
MaxOwners == 2
\* largest subscriber roster a broadcast reads
MaxUsers == 1

(***************************************************************************)
(* JavaScript string primitives.                                           *)
(***************************************************************************)
\* String.prototype.toLowerCase on one character
LowerChar(c) ==
    CASE c = "A" -> "a" [] c = "B" -> "b" [] c = "C" -> "c" [] c = "D" -> "d"
      [] c = "E" -> "e" [] c = "F" -> "f" [] c = "G" -> "g" [] c = "H" -> "h"
      [] c = "I" -> "i" [] c = "J" -> "j" [] c = "K" -> "k" [] c = "L" -> "l"
      [] c = "M" -> "m" [] c = "N" -> "n" [] c = "O" -> "o" [] c = "P" -> "p"
      [] c = "Q" -> "q" [] c = "R" -> "r" [] c = "S" -> "s" [] c = "T" -> "t"
      [] c = "U" -> "u" [] c = "V" -> "v" [] c = "W" -> "w" [] c = "X" -> "x"
      [] c = "Y" -> "y" [] c = "Z" -> "z"
      [] OTHER -> c

\* String.prototype.toLowerCase
toLowerCase(s) == [i \in 1..Len(s) |-> LowerChar(s[i])]

\* String.prototype.includes: kw occurs in s as a contiguous substring
includes(s, kw) ==
    \E i \in 0..(Len(s) - Len(kw)) :
        \A j \in 1..Len(kw) : s[i + j] = kw[j]

\* String.prototype.slice(0, n)
slice0(s, n) == SubSeq(s, 1, IF Len(s) < n THEN Len(s) ELSE n)

(***************************************************************************)
(* config/constants: POSTBACK_STATUS                                       *)
(***************************************************************************)
DEPOSIT_KEYWORDS ==
    { <<"d","e","p">>,
      <<"d","e","p","o","s","i","t">>,
      <<"s","a","l","e">>,
      <<"a","p","p","r","o","v","e","d">>,
      <<"c","o","n","f","i","r","m","e","d">>,
      <<"s","u","c","c","e","s","s">>,
      <<"c","o","m","p","l","e","t","e">>,
      <<"p","a","i","d">>,
      <<"f","t","d">>,
      <<"f","i","r","s","t","_","d","e","p","o","s","i","t">>,
      <<"p","a","y","m","e","n","t">>,
      <<"p","u","r","c","h","a","s","e">>,
      <<"c","o","n","v","e","r","s","i","o","n">> }

REJECTION_KEYWORDS ==
    { <<"r","e","j","e","c","t">>,
      <<"d","e","n","i","e","d">>,
      <<"c","a","n","c","e","l">>,
      <<"f","a","i","l">>,
      <<"d","e","c","l","i","n","e">>,
      <<"v","o","i","d">>,
      <<"r","e","f","u","n","d">>,
      <<"c","h","a","r","g","e","b","a","c","k">> }

LEAD_KEYWORDS ==
    { <<"l","e","a","d">>,
      <<"r","e","g">>,
      <<"r","e","g","i","s","t","r","a","t","i","o","n">>,
      <<"c","l","i","c","k">>,
      <<"i","m","p","r","e","s","s","i","o","n">>,
      <<"i","n","s","t","a","l","l">>,
      <<"s","i","g","n","u","p">>,
      <<"v","i","e","w">> }

EXACT_VALID_STATUSES ==
    { <<"s","a","l","e">>,
      <<"d","e","p">>,
      <<"d","e","p","o","s","i","t">>,
      <<"f","i","r","s","t","_","d","e","p","_","c","o","n","f","i","r","m","e","d">>,
      <<"d","e","p","_","c","o","n","f","i","r","m","e","d">> }

\* the two literals of the lead-exclusion override
LIT_dep == <<"d","e","p">>
LIT_sale == <<"s","a","l","e">>

(***************************************************************************)
(* WebhookController._validateDepositStatus                                *)
(***************************************************************************)
hasRejectionKeyword(statusLower) ==
    \E keyword \in REJECTION_KEYWORDS : includes(statusLower, toLowerCase(keyword))

hasLeadKeyword(statusLower) ==
    \E keyword \in LEAD_KEYWORDS : includes(statusLower, toLowerCase(keyword))

hasDepositKeyword(statusLower) ==
    \E keyword \in DEPOSIT_KEYWORDS : includes(statusLower, toLowerCase(keyword))

\* mutant: the deposit keywords are looked at before the rejection keywords
MUT_validateDepositStatus_depositFirst(status) ==
    LET statusLower == toLowerCase(status) IN
    IF hasDepositKeyword(statusLower)
    THEN [isValid |-> TRUE, reason |-> "contains_deposit_keyword"]
    ELSE IF hasRejectionKeyword(statusLower)
    THEN [isValid |-> FALSE, reason |-> "contains_rejection_keyword"]
    ELSE [isValid |-> FALSE, reason |-> "no_deposit_indicators"]

\* mutant: the lead exclusion has no dep/sale override
MUT_validateDepositStatus_noOverride(status) ==
    LET statusLower == toLowerCase(status) IN
    IF hasRejectionKeyword(statusLower)
    THEN [isValid |-> FALSE, reason |-> "contains_rejection_keyword"]
    ELSE IF hasLeadKeyword(statusLower)
    THEN [isValid |-> FALSE, reason |-> "is_lead_or_registration"]
    ELSE IF hasDepositKeyword(statusLower)
    THEN [isValid |-> TRUE, reason |-> "contains_deposit_keyword"]
    ELSE [isValid |-> FALSE, reason |-> "no_deposit_indicators"]

\* mutant: any deposit keyword overrides the lead exclusion
MUT_validateDepositStatus_anyDepositOverride(status) ==
    LET statusLower == toLowerCase(status) IN
    IF hasRejectionKeyword(statusLower)
    THEN [isValid |-> FALSE, reason |-> "contains_rejection_keyword"]
    ELSE IF hasLeadKeyword(statusLower) /\ ~hasDepositKeyword(statusLower)
    THEN [isValid |-> FALSE, reason |-> "is_lead_or_registration"]
    ELSE IF hasDepositKeyword(statusLower)
    THEN [isValid |-> TRUE, reason |-> "contains_deposit_keyword"]
    ELSE IF status \in EXACT_VALID_STATUSES
    THEN [isValid |-> TRUE, reason |-> "exact_match_legacy"]
    ELSE [isValid |-> FALSE, reason |-> "no_deposit_indicators"]

\* mutant: the legacy list is consulted before the deposit keywords
MUT_validateDepositStatus_legacyFirst(status) ==
    LET statusLower == toLowerCase(status) IN
    IF hasRejectionKeyword(statusLower)
    THEN [isValid |-> FALSE, reason |-> "contains_rejection_keyword"]
    ELSE IF /\ hasLeadKeyword(statusLower)
            /\ ~includes(statusLower, LIT_dep)
            /\ ~includes(statusLower, LIT_sale)
    THEN [isValid |-> FALSE, reason |-> "is_lead_or_registration"]
    ELSE IF status \in EXACT_VALID_STATUSES
    THEN [isValid |-> TRUE, reason |-> "exact_match_legacy"]
    ELSE IF hasDepositKeyword(statusLower)
    THEN [isValid |-> TRUE, reason |-> "contains_deposit_keyword"]
    ELSE [isValid |-> FALSE, reason |-> "no_deposit_indicators"]

_validateDepositStatus(status) ==
    LET statusLower == toLowerCase(status) IN
    IF hasRejectionKeyword(statusLower)
    THEN [isValid |-> FALSE, reason |-> "contains_rejection_keyword"]
    ELSE IF /\ hasLeadKeyword(statusLower)
            /\ ~includes(statusLower, LIT_dep)
            /\ ~includes(statusLower, LIT_sale)
    THEN [isValid |-> FALSE, reason |-> "is_lead_or_registration"]
    ELSE IF hasDepositKeyword(statusLower)
    THEN [isValid |-> TRUE, reason |-> "contains_deposit_keyword"]
    ELSE IF status \in EXACT_VALID_STATUSES
    THEN [isValid |-> TRUE, reason |-> "exact_match_legacy"]
    ELSE [isValid |-> FALSE, reason |-> "no_deposit_indicators"]

\* the classifier's three-way result: accept / reject / ignore
Classification(status) ==
    LET v == _validateDepositStatus(status) IN
    IF v.isValid THEN "accept"
    ELSE IF v.reason = "contains_rejection_keyword" THEN "reject"
    ELSE "ignore"

(***************************************************************************)
(* config/constants: TRAFFIC_SOURCES, KNOWN_FB_POSTBACK_SOURCES            *)
(***************************************************************************)
FB_SOURCES == {3, 4, 5, 6, 7, 8, 9, 10, 11, 12, 13, 14, 15, 16, 17}
NON_FB_SOURCES == {2}

\* JavaScript undefined / NaN in a numeric field; it is no channel id
Undefined == 0 - 1

FROM_bettitltr == <<"b","e","t","t","i","t","l","t","r">>
FROM_pwa_partners == <<"p","w","a",".","p","a","r","t","n","e","r","s">>
FROM_pinco_partners == <<"p","i","n","c","o",".","p","a","r","t","n","e","r","s">>
FROM_wwapps == <<"w","w","a","p","p","s">>
FROM_wwa == <<"w","w","a">>
FROM_skakapp_com == <<"s","k","a","k","a","p","p",".","c","o","m">>
FROM_skakapp == <<"s","k","a","k","a","p","p">>

\* the object literal: own keys and their values
KNOWN_FB_POSTBACK_SOURCES ==
    (FROM_bettitltr :> [name |-> "WWA (BettiltTR)", traffic_source_id |-> 17])
 @@ (FROM_pwa_partners :> [name |-> "PWA Partners", traffic_source_id |-> 16])
 @@ (FROM_pinco_partners :> [name |-> "PWA Partners (PINCO)", traffic_source_id |-> 16])
 @@ (FROM_wwapps :> [name |-> "WWA", traffic_source_id |-> 17])
 @@ (FROM_wwa :> [name |-> "WWA", traffic_source_id |-> 17])
 @@ (FROM_skakapp_com :> [name |-> "Skakapp.com", traffic_source_id |-> 11])
 @@ (FROM_skakapp :> [name |-> "Skakapp.com", traffic_source_id |-> 11])

\* Property names every object literal inherits from Object.prototype and
\* that a lower-cased string can equal; obj[key] yields a truthy value for
\* them (the Object function, Object.prototype).
FROM_constructor == <<"c","o","n","s","t","r","u","c","t","o","r">>
FROM_proto == <<"_","_","p","r","o","t","o","_","_">>
INHERITED_PROPERTIES ==
    (FROM_constructor :> [name |-> "Object", traffic_source_id |-> Undefined])
 @@ (FROM_proto :> [name |-> "undefined", traffic_source_id |-> Undefined])

\* KNOWN_FB_POSTBACK_SOURCES[fromParam]: <<v>> when the lookup is truthy,
\* << >> when it is undefined
KnownSourceLookup(fromParam) ==
    IF fromParam \in DOMAIN KNOWN_FB_POSTBACK_SOURCES
    THEN <<KNOWN_FB_POSTBACK_SOURCES[fromParam]>>
    ELSE IF fromParam \in DOMAIN INHERITED_PROPERTIES
    THEN <<INHERITED_PROPERTIES[fromParam]>>
    ELSE << >>

(***************************************************************************)
(* TrafficSourceService.isFBSource                                         *)
(***************************************************************************)
\* mutant: every source that is not explicitly ignored counts as FB
MUT_isFBSource_notIgnored(trafficSourceId) ==
    trafficSourceId \notin NON_FB_SOURCES

isFBSource(trafficSourceId) ==
    trafficSourceId \in FB_SOURCES

(***************************************************************************)
(* Timers of the controller module                                         *)
(***************************************************************************)
CACHE_CLEANUP_INTERVAL == 60 * 60 * 1000
CACHE_TTL == 24 * 60 * 60 * 1000
\* the fixed wait before the second lookup
RETRY_WAIT == 30000

(***************************************************************************)
(* Inputs: the query objects of the inbound requests.  A query is a        *)
(* function from the field names present to their values; payout is what   *)
(* Joi.number() makes of the raw text: a number, or not a number.          *)
(***************************************************************************)
SUBID_A == <<"a","b","c","1","2","3","4","5","x","y","z">>
SUBID_B == <<"a","b","c","1","2","3","4","5","z","z","z">>
STATUS_dep == <<"d","e","p">>
STATUS_Sale == <<"S","a","l","e">>
STATUS_reg == <<"r","e","g">>
STATUS_dep_rejected == <<"d","e","p","_","r","e","j","e","c","t","e","d">>
GEO_TR == <<"T","R">>
GEO_TUR == <<"T","U","R">>
FROM_unknown_source == <<"u","n","k","n","o","w","n","_","s","o","u","r","c","e">>
FROM_WWA_upper == <<"W","W","A">>

Num(n) == [isNumber |-> TRUE, value |-> n]
NotANumber == [isNumber |-> FALSE, value |-> 0]

Queries ==
    { \* well-formed deposits
      [subid |-> SUBID_A, status |-> STATUS_dep, payout |-> Num(60), from |-> FROM_bettitltr],
      [subid |-> SUBID_A, status |-> STATUS_dep, from |-> FROM_unknown_source],
      [subid |-> SUBID_A, status |-> STATUS_dep],
      [subid |-> SUBID_B, status |-> STATUS_Sale, geo |-> GEO_TR, from |-> FROM_WWA_upper],
      [subid |-> SUBID_A, status |-> STATUS_dep, from |-> FROM_constructor],
      \* well-formed, status not a deposit
      [subid |-> SUBID_A, status |-> STATUS_reg, from |-> FROM_bettitltr],
      [subid |-> SUBID_A, status |-> STATUS_dep_rejected],
      \* malformed
      [subid |-> SUBID_A],
      [status |-> STATUS_dep],
      [subid |-> SUBID_A, status |-> STATUS_dep, payout |-> NotANumber],
      [subid |-> SUBID_A, status |-> STATUS_dep, payout |-> Num(0)],
      [subid |-> SUBID_B, status |-> STATUS_dep, geo |-> GEO_TUR] }

Has(q, f) == f \in DOMAIN q

(***************************************************************************)
(* postbackSchema: Joi.object({subid, status, payout, geo}).unknown(true)  *)
(***************************************************************************)
\* mutant: the schema does not require status
MUT_postbackSchemaValid_statusOptional(q) ==
    /\ Has(q, "subid") /\ Len(q.subid) > 0
    /\ Has(q, "status") => Len(q.status) > 0
    /\ Has(q, "payout") => (q.payout.isNumber /\ q.payout.value > 0)
    /\ Has(q, "geo") => Len(q.geo) = 2

postbackSchemaValid(q) ==
    /\ Has(q, "subid") /\ Len(q.subid) > 0
    /\ Has(q, "status") /\ Len(q.status) > 0
    /\ Has(q, "payout") => (q.payout.isNumber /\ q.payout.value > 0)
    /\ Has(q, "geo") => Len(q.geo) = 2

(***************************************************************************)
(* The attribution platform's answers to getClickById.                     *)
(***************************************************************************)
BUYER_1 == <<"b","u","y","e","r","0","0","0","1">>
LookupChannels == {2, 17, 99}

ClickRecord(subid, ch) ==
    [ subid |-> subid,
      sub_id_1 |-> BUYER_1,
      traffic_source_id |-> ch,
      traffic_source_name |-> "from-platform",
      campaign_name |-> "from-platform",
      offer_name |-> "from-platform" ]

NoClick == << >>

\* a lookup ends with a record (on some channel), with null, or by throwing
\* (an API error or, on the first call, the 15 s Promise.race timeout)
LookupResults ==
    {[kind |-> "found", channel |-> ch] : ch \in LookupChannels}
    \cup {[kind |-> "null", channel |-> Undefined],
          [kind |-> "error", channel |-> Undefined]}

(***************************************************************************)
(* State                                                                   *)
(***************************************************************************)
\* The calls of processPostback in one behaviour, numbered by arrival: the
\* pipeline's properties speak of one call or of two overlapping calls.
Runs == {1, 2}

VARIABLES
    now,                   \* Date.now(), in ms since process start
    ticks,                 \* how many times the clock has advanced
    nextSweep,             \* when the setInterval sweep is due next
    processedSubIdsCache,  \* the Map subid -> timestamp
    notificationLog,       \* the NotificationLog table, in creation order
    pc,                    \* where each processPostback call stands
    query,                 \* req.query of each call
    clickData,             \* the call's clickData: << >> or <<record>>
    waitUntil,             \* when the call's 30 s retry timer fires
    response,              \* what _sendResponse sent for the call
    lookupLog,             \* the results of the call's getClickById calls
    dispatched,            \* the depositData the call gave the broadcast
    notificationResult,    \* what the call's broadcast returned, and how many
                           \* subscribers it had reached by then
    fallbackCalls,         \* how often the call ran _processFallbackDeposit
    cacheWrites,           \* how often the call wrote processedSubIdsCache
    arrival,               \* what the call found when it arrived
    alerts,                \* the owners the call's catch block tried to alert
    clsIn,                 \* classifier harness: the status under test
    clsOut,                \* classifier harness: << >> or <<result>>
    auditIn,               \* audit harness: what the audit reads
    auditOut,              \* audit harness: << >> or <<report>>
    auditHistory,          \* the scheduler's auditHistory array
    auditRuns,             \* the scheduler's runs so far, each with its end
    keitaroCall,           \* lookup harness: one call of getClickById
    httpRequest,           \* the HTTP request behind each call, where recorded
    broadcastCall          \* broadcast harness: the loop of sendDepositNotification

pipelineVars ==
    <<now, ticks, nextSweep, processedSubIdsCache, notificationLog, pc, query,
      clickData, waitUntil, response, lookupLog, dispatched, notificationResult,
      fallbackCalls, cacheWrites, arrival, alerts>>

vars == <<pipelineVars, clsIn, clsOut, auditIn, auditOut, auditHistory, auditRuns, keitaroCall, httpRequest, broadcastCall>>

NoQuery == [none |-> TRUE]
NoResponse == [status |-> 0, message |-> "", reason |-> ""]
NoArrival == [cached |-> FALSE, age |-> 0, inflight |-> {}, waiting |-> {}]

PipelineInit ==
    /\ now = 0
    /\ ticks = 0
    /\ nextSweep = CACHE_CLEANUP_INTERVAL
    /\ processedSubIdsCache = << >>
    /\ notificationLog = << >>
    /\ pc = [r \in Runs |-> "idle"]
    /\ query = [r \in Runs |-> NoQuery]
    /\ clickData = [r \in Runs |-> NoClick]
    /\ waitUntil = [r \in Runs |-> 0]
    /\ response = [r \in Runs |-> NoResponse]
    /\ lookupLog = [r \in Runs |-> << >>]
    /\ dispatched = [r \in Runs |-> << >>]
    /\ notificationResult = [r \in Runs |-> << >>]
    /\ fallbackCalls = [r \in Runs |-> 0]
    /\ cacheWrites = [r \in Runs |-> 0]
    /\ arrival = [r \in Runs |-> NoArrival]
    /\ alerts = [r \in Runs |-> << >>]

Init ==
    /\ PipelineInit
    /\ clsIn = << >>
    /\ clsOut = << >>
    /\ auditIn = << >>
    /\ auditOut = << >>
    /\ auditHistory = << >>
    /\ auditRuns = << >>
    /\ keitaroCall = [none |-> TRUE]
    /\ httpRequest = [r \in Runs |-> [none |-> TRUE]]
    /\ broadcastCall = [stage |-> "idle", users |-> << >>, next |-> 1, successCount |-> 0,
                        failedCount |-> 0, returned |-> << >>]

(***************************************************************************)
(* The dedup cache: Map.has / Map.set and the setInterval sweep            *)
(***************************************************************************)
CacheHas(cache, subid) == subid \in DOMAIN cache

CacheSet(cache, subid, t) ==
    [k \in DOMAIN cache \cup {subid} |-> IF k = subid THEN t ELSE cache[k]]

\* mutant: the sweep evicts from the age of one sweep interval on
MUT_SweepKeeps_interval(cache, t) ==
    {k \in DOMAIN cache : ~(t - cache[k] > CACHE_CLEANUP_INTERVAL)}

\* mutant: the sweep evicts from the age of exactly the TTL on
MUT_SweepKeeps_atTTL(cache, t) ==
    {k \in DOMAIN cache : ~(t - cache[k] >= CACHE_TTL)}

\* the keys the sweep leaves in place at time t
SweepKeeps(cache, t) ==
    {k \in DOMAIN cache : ~(t - cache[k] > CACHE_TTL)}

\* _sendResponse(res, statusCode, {message, reason})
Respond(r, statusCode, message, reason) ==
    /\ response' = [response EXCEPT ![r] =
           [status |-> statusCode, message |-> message, reason |-> reason]]
    /\ pc' = [pc EXCEPT ![r] = "done"]

InFlight == {s \in Runs : pc[s] \notin {"idle", "done"}}

\* the calls suspended in their 30 s wait
Waiting == {s \in Runs : pc[s] = "wait"}

\* the request names a subid the cache holds
Cached(q) == Has(q, "subid") /\ q.subid \in DOMAIN processedSubIdsCache

(***************************************************************************)
(* processPostback.  An action is what one call does between two awaits    *)
(* on a collaborator; the await on the local _validatePostback yields to   *)
(* no code that could change what the call reads.                          *)
(*                                                                         *)
(* Receive: step 0 (cache check), step 1 (_validatePostback), step 2       *)
(* (_validateDepositStatus), and the first getClickById is issued.         *)
(***************************************************************************)
\* mutant: no duplicate check at arrival
MUT_IsDuplicate_never(q) == FALSE

\* subIdFromQuery && processedSubIdsCache.has(subIdFromQuery)
IsDuplicate(q) ==
    /\ Has(q, "subid")
    /\ Len(q.subid) > 0
    /\ CacheHas(processedSubIdsCache, q.subid)

Goto(r, label) ==
    /\ pc' = [pc EXCEPT ![r] = label]
    /\ UNCHANGED response

\* mutant: the request is validated before the cache is consulted
MUT_ReceiveOutcome_validateFirst(r, q) ==
    IF ~postbackSchemaValid(q)
    THEN Respond(r, 400, "INVALID_POSTBACK", "")
    ELSE IF IsDuplicate(q)
    THEN Respond(r, 200, "Duplicate SubID - already processed", "")
    ELSE IF ~_validateDepositStatus(q.status).isValid
    THEN Respond(r, 200, "Postback ignored - invalid status",
                 _validateDepositStatus(q.status).reason)
    ELSE Goto(r, "lookup1")

\* mutant: every well-formed request goes on to the lookup
MUT_ReceiveOutcome_noStatusCheck(r, q) ==
    IF IsDuplicate(q)
    THEN Respond(r, 200, "Duplicate SubID - already processed", "")
    ELSE IF ~postbackSchemaValid(q)
    THEN Respond(r, 400, "INVALID_POSTBACK", "")
    ELSE Goto(r, "lookup1")

ReceiveOutcome(r, q) ==
    IF IsDuplicate(q)
    THEN Respond(r, 200, "Duplicate SubID - already processed", "")
    ELSE IF ~postbackSchemaValid(q)
    THEN Respond(r, 400, "INVALID_POSTBACK", "")
    ELSE IF ~_validateDepositStatus(q.status).isValid
    THEN Respond(r, 200, "Postback ignored - invalid status",
                 _validateDepositStatus(q.status).reason)
    ELSE Goto(r, "lookup1")

\* mutant: the 30 s wait blocks the process (a sleep, not a timer), so no
\* request is handled while a call waits
MUT_Receive_blockedByWait(r, q) ==
    /\ pc[r] = "idle"
    /\ Waiting = {}
    /\ \A s \in Runs : s < r => pc[s] # "idle"
    /\ query' = [query EXCEPT ![r] = q]
    /\ arrival' = [arrival EXCEPT ![r] =
           [cached |-> Cached(q),
            age |-> IF Cached(q) THEN now - processedSubIdsCache[q.subid] ELSE 0,
            inflight |-> InFlight,
            waiting |-> Waiting]]
    /\ ReceiveOutcome(r, q)
    /\ UNCHANGED <<now, ticks, nextSweep, processedSubIdsCache, notificationLog,
                   clickData, waitUntil, lookupLog, dispatched, notificationResult,
                   fallbackCalls, cacheWrites, alerts, clsIn, clsOut, auditIn, auditOut, auditHistory, auditRuns, keitaroCall, httpRequest, broadcastCall>>

\* steps 0 to 2 of processPostback on the object it reads as req.query
ReceiveQuery(r, q) ==
    /\ pc[r] = "idle"
    /\ \A s \in Runs : s < r => pc[s] # "idle"   \* calls are numbered by arrival
    /\ query' = [query EXCEPT ![r] = q]
    /\ arrival' = [arrival EXCEPT ![r] =
           [cached |-> Cached(q),
            age |-> IF Cached(q) THEN now - processedSubIdsCache[q.subid] ELSE 0,
            inflight |-> InFlight,
            waiting |-> Waiting]]
    /\ ReceiveOutcome(r, q)
    /\ UNCHANGED <<now, ticks, nextSweep, processedSubIdsCache, notificationLog,
                   clickData, waitUntil, lookupLog, dispatched, notificationResult,
                   fallbackCalls, cacheWrites, alerts>>

Receive(r, q) ==
    /\ ReceiveQuery(r, q)
    /\ UNCHANGED <<clsIn, clsOut, auditIn, auditOut, auditHistory, auditRuns,
                   keitaroCall, httpRequest, broadcastCall>>

(***************************************************************************)
(* The route: GET /postback and POST /postback both run processPostback.   *)
(* A request carries its fields in the URL's query string (req.query) or   *)
(* in its body (req.body, parsed by express.json / express.urlencoded).    *)
(***************************************************************************)
EmptyObject == [f \in {} |-> f]
NoRequest == [none |-> TRUE]

GetRequest(fields) == [method |-> "GET", query |-> fields, body |-> EmptyObject]
PostRequest(fields) == [method |-> "POST", query |-> EmptyObject, body |-> fields]

RoutedFields ==
    {[subid |-> SUBID_A, status |-> STATUS_dep, payout |-> Num(60), from |-> FROM_bettitltr],
     [subid |-> SUBID_B, status |-> STATUS_Sale, geo |-> GEO_TR, from |-> FROM_WWA_upper],
     [subid |-> SUBID_A, status |-> STATUS_reg, from |-> FROM_bettitltr],
     [subid |-> SUBID_A]}

Requests ==
    {GetRequest(fields) : fields \in RoutedFields}
    \cup {PostRequest(fields) : fields \in RoutedFields}

\* what processPostback reads its fields from
requestInput(req) == req.query

processPostback(r, req) ==
    /\ ReceiveQuery(r, requestInput(req))
    /\ httpRequest' = [httpRequest EXCEPT ![r] = req]
    /\ UNCHANGED <<clsIn, clsOut, auditIn, auditOut, auditHistory, auditRuns, keitaroCall,
                   broadcastCall>>

(***************************************************************************)
(* step 4, the FB source check, run on a record either lookup found; on    *)
(* an FB source the call goes on to _enrichDepositData and the broadcast   *)
(***************************************************************************)
FoundRecord(r, channel) ==
    /\ clickData' = [clickData EXCEPT ![r] =
           <<ClickRecord(query[r].subid, channel)>>]
    /\ IF isFBSource(channel)
       THEN Goto(r, "send")
       ELSE Respond(r, 200, "Postback ignored - non-FB source", "")

(***************************************************************************)
(* TelegramBotService.sendDepositNotification: read the roster, send to    *)
(* every approved user, write one NotificationLog row.  An outcome says    *)
(* what the collaborators did: the roster's size, how many sends           *)
(* succeeded, whether reading the roster threw and whether writing the     *)
(* row threw.                                                              *)
(***************************************************************************)
BroadcastOutcomes ==
    UNION { { [users |-> n, success |-> k, rosterThrows |-> FALSE, logThrows |-> lt]
                : k \in 0..n, lt \in BOOLEAN }
            : n \in 0..MaxUsers }
    \cup { [users |-> 0, success |-> 0, rosterThrows |-> TRUE, logThrows |-> FALSE] }

\* mutant: a broadcast that reached nobody reports failure
MUT_BroadcastSucceeds_needsRecipient(o) ==
    ~o.rosterThrows /\ ~o.logThrows /\ o.success > 0

\* notificationResult.success: true unless something threw
BroadcastSucceeds(o) == ~o.rosterThrows /\ ~o.logThrows

LogEntry(depositData, o, t) ==
    [ type |-> "deposit",
      recipient_count |-> o.users,
      success_count |-> o.success,
      failed_count |-> o.users - o.success,
      metadata |-> depositData,
      created_at |-> t ]

sendDepositNotification(r, depositData, o) ==
    /\ dispatched' = [dispatched EXCEPT ![r] = Append(@, depositData)]
    /\ notificationResult' = [notificationResult EXCEPT ![r] =
           Append(@, [success |-> BroadcastSucceeds(o), sent |-> o.success])]
    /\ notificationLog' =
           IF BroadcastSucceeds(o)
           THEN Append(notificationLog, LogEntry(depositData, o, now))
           ELSE notificationLog

(***************************************************************************)
(* steps 5 and 6: _enrichDepositData, the broadcast, the cache write       *)
(***************************************************************************)
\* mutant: the record's campaign and offer are dropped
MUT_enrichDepositData_noDetail(postbackData, click) ==
    [ subid1 |-> click.sub_id_1,
      traffic_source_name |-> click.traffic_source_name,
      offer_name |-> "N/A",
      campaign_name |-> "N/A",
      traffic_source_id |-> click.traffic_source_id,
      clickId |-> postbackData.subid,
      fallbackUsed |-> FALSE ]

\* mutant: the deposit data names the buyer only, not the click
MUT_enrichDepositData_noClickId(postbackData, click) ==
    [ subid1 |-> click.sub_id_1,
      traffic_source_name |-> click.traffic_source_name,
      offer_name |-> click.offer_name,
      campaign_name |-> click.campaign_name,
      traffic_source_id |-> click.traffic_source_id,
      fallbackUsed |-> FALSE ]

\* the fields of enrichedData the log and the audit read
_enrichDepositData(postbackData, click) ==
    [ subid1 |-> click.sub_id_1,
      traffic_source_name |-> click.traffic_source_name,
      offer_name |-> click.offer_name,
      campaign_name |-> click.campaign_name,
      traffic_source_id |-> click.traffic_source_id,
      clickId |-> postbackData.subid,
      fallbackUsed |-> FALSE ]

\* mutant: the cache is written whatever the broadcast reported
MUT_MarksProcessed_always(o) == TRUE

\* whether the call marks its subid after a broadcast with outcome o
MarksProcessed(o) == BroadcastSucceeds(o)

\* mutant: a failed broadcast is reported to the sender with a 200
MUT_Send_failureAnswers200(r, o) ==
    /\ pc[r] = "send"
    /\ o \in BroadcastOutcomes
    /\ sendDepositNotification(r, _enrichDepositData(query[r], clickData[r][1]), o)
    /\ IF MarksProcessed(o)
       THEN /\ processedSubIdsCache' =
                   CacheSet(processedSubIdsCache, query[r].subid, now)
            /\ cacheWrites' = [cacheWrites EXCEPT ![r] = @ + 1]
       ELSE UNCHANGED <<processedSubIdsCache, cacheWrites>>
    /\ IF BroadcastSucceeds(o)
       THEN Respond(r, 200, "Deposit notification sent successfully", "")
       ELSE Respond(r, 200, "Failed to send notification", "TELEGRAM_ERROR")
    /\ UNCHANGED <<now, ticks, nextSweep, query, clickData, waitUntil, lookupLog,
                   fallbackCalls, arrival, alerts, clsIn, clsOut, auditIn, auditOut, auditHistory, auditRuns, keitaroCall, httpRequest, broadcastCall>>

Send(r, o) ==
    /\ pc[r] = "send"
    /\ o \in BroadcastOutcomes
    /\ sendDepositNotification(r, _enrichDepositData(query[r], clickData[r][1]), o)
    /\ IF MarksProcessed(o)
       THEN /\ processedSubIdsCache' =
                   CacheSet(processedSubIdsCache, query[r].subid, now)
            /\ cacheWrites' = [cacheWrites EXCEPT ![r] = @ + 1]
       ELSE UNCHANGED <<processedSubIdsCache, cacheWrites>>
    /\ IF BroadcastSucceeds(o)
       THEN Respond(r, 200, "Deposit notification sent successfully", "")
       ELSE Respond(r, 500, "Failed to send notification", "TELEGRAM_ERROR")
    /\ UNCHANGED <<now, ticks, nextSweep, query, clickData, waitUntil, lookupLog,
                   fallbackCalls, arrival, alerts, clsIn, clsOut, auditIn, auditOut, auditHistory, auditRuns, keitaroCall, httpRequest, broadcastCall>>

(***************************************************************************)
(* _processFallbackDeposit                                                 *)
(***************************************************************************)
\* (postbackData.from || '').toLowerCase()
FromParam(postbackData) ==
    IF Has(postbackData, "from") THEN toLowerCase(postbackData.from) ELSE << >>

\* mutant: the from parameter is looked up as sent, not lower-cased
MUT_FallbackSource_caseSensitive(postbackData) ==
    KnownSourceLookup(IF Has(postbackData, "from") THEN postbackData.from ELSE << >>)

\* knownFBSource: << >> when falsy, <<binding>> otherwise
FallbackSource(postbackData) == KnownSourceLookup(FromParam(postbackData))

FallbackData(postbackData, knownFBSource) ==
    [ subid1 |-> slice0(postbackData.subid, 8),
      traffic_source_name |-> knownFBSource.name,
      offer_name |-> "Unknown Offer (Fallback)",
      campaign_name |-> "Unknown Campaign (Fallback)",
      traffic_source_id |-> knownFBSource.traffic_source_id,
      clickId |-> postbackData.subid,
      fallbackUsed |-> TRUE ]

(***************************************************************************)
(* step 3: the first getClickById, raced against the 15 s timeout          *)
(***************************************************************************)
Lookup1(r, res) ==
    /\ pc[r] = "lookup1"
    /\ res \in LookupResults
    /\ lookupLog' = [lookupLog EXCEPT ![r] = Append(@, res.kind)]
    /\ \/ /\ res.kind = "found"
          /\ FoundRecord(r, res.channel)
          /\ UNCHANGED waitUntil
       \/ /\ res.kind = "null"
          /\ waitUntil' = [waitUntil EXCEPT ![r] = now + RETRY_WAIT]
          /\ Goto(r, "wait")
          /\ UNCHANGED clickData
       \/ /\ res.kind = "error"
          /\ Respond(r, 200, "Postback ignored - Keitaro API unavailable", "")
          /\ UNCHANGED <<clickData, waitUntil>>
    /\ UNCHANGED <<now, ticks, nextSweep, processedSubIdsCache, notificationLog,
                   query, dispatched, notificationResult, fallbackCalls, cacheWrites,
                   arrival, alerts, clsIn, clsOut, auditIn, auditOut, auditHistory, auditRuns, keitaroCall, httpRequest, broadcastCall>>

(***************************************************************************)
(* the 30 s timer fires and getClickById is called once more; without a    *)
(* record the call enters _processFallbackDeposit, which resolves the      *)
(* from parameter and, on a known source, starts the broadcast             *)
(***************************************************************************)
\* mutant: an error of the retry ends the call, as an error of the first
\* lookup does
MUT_RetryLookup_errorIgnored(r, res) ==
    /\ pc[r] = "wait"
    /\ now >= waitUntil[r]
    /\ res \in LookupResults
    /\ lookupLog' = [lookupLog EXCEPT ![r] = Append(@, res.kind)]
    /\ \/ /\ res.kind = "found"
          /\ FoundRecord(r, res.channel)
          /\ UNCHANGED fallbackCalls
       \/ /\ res.kind = "error"
          /\ Respond(r, 200, "Postback ignored - Keitaro API unavailable", "")
          /\ UNCHANGED <<clickData, fallbackCalls>>
       \/ /\ res.kind = "null"
          /\ fallbackCalls' = [fallbackCalls EXCEPT ![r] = @ + 1]
          /\ IF FallbackSource(query[r]) = << >>
             THEN Respond(r, 200, "Postback ignored after retry and fallback",
                          "Unknown postback source")
             ELSE Goto(r, "fallbackSend")
          /\ UNCHANGED clickData
    /\ UNCHANGED <<now, ticks, nextSweep, processedSubIdsCache, notificationLog,
                   query, waitUntil, dispatched, notificationResult, cacheWrites,
                   arrival, alerts, clsIn, clsOut, auditIn, auditOut, auditHistory, auditRuns, keitaroCall, httpRequest, broadcastCall>>

\* mutant: the retry does not await the 30 s timer
MUT_RetryLookup_noWait(r, res) ==
    /\ pc[r] = "wait"
    /\ res \in LookupResults
    /\ lookupLog' = [lookupLog EXCEPT ![r] = Append(@, res.kind)]
    /\ \/ /\ res.kind = "found"
          /\ FoundRecord(r, res.channel)
          /\ UNCHANGED fallbackCalls
       \/ /\ res.kind \in {"null", "error"}
          /\ fallbackCalls' = [fallbackCalls EXCEPT ![r] = @ + 1]
          /\ IF FallbackSource(query[r]) = << >>
             THEN Respond(r, 200, "Postback ignored after retry and fallback",
                          "Unknown postback source")
             ELSE Goto(r, "fallbackSend")
          /\ UNCHANGED clickData
    /\ UNCHANGED <<now, ticks, nextSweep, processedSubIdsCache, notificationLog,
                   query, waitUntil, dispatched, notificationResult, cacheWrites,
                   arrival, alerts, clsIn, clsOut, auditIn, auditOut, auditHistory, auditRuns, keitaroCall, httpRequest, broadcastCall>>

RetryLookup(r, res) ==
    /\ pc[r] = "wait"
    /\ now >= waitUntil[r]
    /\ res \in LookupResults
    /\ lookupLog' = [lookupLog EXCEPT ![r] = Append(@, res.kind)]
    /\ \/ /\ res.kind = "found"
          /\ FoundRecord(r, res.channel)
          /\ UNCHANGED fallbackCalls
       \/ /\ res.kind \in {"null", "error"}   \* the retry's error is only logged
          /\ fallbackCalls' = [fallbackCalls EXCEPT ![r] = @ + 1]
          /\ IF FallbackSource(query[r]) = << >>
             THEN Respond(r, 200, "Postback ignored after retry and fallback",
                          "Unknown postback source")
             ELSE Goto(r, "fallbackSend")
          /\ UNCHANGED clickData
    /\ UNCHANGED <<now, ticks, nextSweep, processedSubIdsCache, notificationLog,
                   query, waitUntil, dispatched, notificationResult, cacheWrites,
                   arrival, alerts, clsIn, clsOut, auditIn, auditOut, auditHistory, auditRuns, keitaroCall, httpRequest, broadcastCall>>

FallbackSend(r, o) ==
    /\ pc[r] = "fallbackSend"
    /\ o \in BroadcastOutcomes
    /\ sendDepositNotification(r, FallbackData(query[r], FallbackSource(query[r])[1]), o)
    /\ IF MarksProcessed(o)
       THEN /\ processedSubIdsCache' =
                   CacheSet(processedSubIdsCache, query[r].subid, now)
            /\ cacheWrites' = [cacheWrites EXCEPT ![r] = @ + 1]
       ELSE UNCHANGED <<processedSubIdsCache, cacheWrites>>
    /\ IF BroadcastSucceeds(o)
       THEN Respond(r, 200, "Fallback deposit notification sent successfully", "")
       ELSE Respond(r, 200, "Postback ignored after retry and fallback",
                    "Telegram notification failed")
    /\ UNCHANGED <<now, ticks, nextSweep, query, clickData, waitUntil, lookupLog,
                   fallbackCalls, arrival, alerts, clsIn, clsOut, auditIn, auditOut, auditHistory, auditRuns, keitaroCall, httpRequest, broadcastCall>>

(***************************************************************************)
(* The catch block of processPostback.  An exception no inner handler      *)
(* absorbs (the lookups, the fallback, the enrichment and the broadcast    *)
(* absorb their own) leaves the try block in place of the step the call    *)
(* was about to take.                                                      *)
(***************************************************************************)
\* config.owners, in order
Owners == 1..MaxOwners

ThrowPoints == {"lookup1", "wait", "send"}

\* an exception is raised while the request is first handled
ReceiveThrows(r, q) ==
    /\ pc[r] = "idle"
    /\ \A s \in Runs : s < r => pc[s] # "idle"
    /\ query' = [query EXCEPT ![r] = q]
    /\ arrival' = [arrival EXCEPT ![r] =
           [cached |-> Cached(q),
            age |-> IF Cached(q) THEN now - processedSubIdsCache[q.subid] ELSE 0,
            inflight |-> InFlight,
            waiting |-> Waiting]]
    /\ Goto(r, "catch")
    /\ UNCHANGED <<now, ticks, nextSweep, processedSubIdsCache, notificationLog,
                   clickData, waitUntil, lookupLog, dispatched, notificationResult,
                   fallbackCalls, cacheWrites, alerts, clsIn, clsOut, auditIn, auditOut, auditHistory, auditRuns, keitaroCall, httpRequest, broadcastCall>>

\* an exception is raised when the call resumes
Throw(r) ==
    /\ pc[r] \in ThrowPoints
    /\ Goto(r, "catch")
    /\ UNCHANGED <<now, ticks, nextSweep, processedSubIdsCache, notificationLog,
                   query, clickData, waitUntil, lookupLog, dispatched,
                   notificationResult, fallbackCalls, cacheWrites, arrival,
                   alerts, clsIn, clsOut, auditIn, auditOut, auditHistory, auditRuns, keitaroCall, httpRequest, broadcastCall>>

\* mutant: the loop over the owners stops at the first failed send
MUT_AlertLoop_stopsAtFailure(reached) ==
    LET firstFailure == IF \E o \in Owners : o \notin reached
                        THEN CHOOSE o \in Owners :
                                 o \notin reached /\ \A n \in Owners \ reached : o <= n
                        ELSE MaxOwners
    IN [i \in 1..firstFailure |-> [owner |-> i, delivered |-> i \in reached]]

\* for (const ownerId of config.owners) try { await sendMessage } catch {}:
\* every owner is tried; reached is the set of owners whose send succeeded
AlertLoop(reached) ==
    [i \in 1..MaxOwners |-> [owner |-> i, delivered |-> i \in reached]]

\* mutant: a failed alert escapes from the catch block and no response is
\* sent
MUT_Catch_alertFailureEscapes(r, reached) ==
    /\ pc[r] = "catch"
    /\ reached \in SUBSET Owners
    /\ alerts' = [alerts EXCEPT ![r] = AlertLoop(reached)]
    /\ IF reached = Owners
       THEN Respond(r, 500, "Internal server error", "SYSTEM_ERROR")
       ELSE Goto(r, "unhandled")
    /\ UNCHANGED <<now, ticks, nextSweep, processedSubIdsCache, notificationLog,
                   query, clickData, waitUntil, lookupLog, dispatched,
                   notificationResult, fallbackCalls, cacheWrites, arrival,
                   clsIn, clsOut, auditIn, auditOut, auditHistory, auditRuns, keitaroCall, httpRequest, broadcastCall>>

Catch(r, reached) ==
    /\ pc[r] = "catch"
    /\ reached \in SUBSET Owners
    /\ alerts' = [alerts EXCEPT ![r] = AlertLoop(reached)]
    /\ Respond(r, 500, "Internal server error", "SYSTEM_ERROR")
    /\ UNCHANGED <<now, ticks, nextSweep, processedSubIdsCache, notificationLog,
                   query, clickData, waitUntil, lookupLog, dispatched,
                   notificationResult, fallbackCalls, cacheWrites, arrival,
                   clsIn, clsOut, auditIn, auditOut, auditHistory, auditRuns, keitaroCall, httpRequest, broadcastCall>>

(***************************************************************************)
(* The clock and the hourly sweep                                          *)
(***************************************************************************)
TickSteps == {RETRY_WAIT, CACHE_TTL}

\* the sweep's timer has expired and its callback has not run yet
SweepDue == now >= nextSweep

\* a call's 30 s timer is pending
TimerPending == \E r \in Runs : pc[r] = "wait" /\ now < waitUntil[r]

\* someone observes the clock advancing by d: a call waiting for its retry
\* timer, or a cache entry on its way to the TTL
Observed(d) ==
    \/ DOMAIN processedSubIdsCache # {}
    \/ d = RETRY_WAIT /\ TimerPending

\* time passes; a due timer callback runs before more time passes.  The
\* clock advances MaxTicks times, and after that only up to the expiry of a
\* pending 30 s timer.
Tick(d) ==
    /\ ticks < MaxTicks \/ (d = RETRY_WAIT /\ TimerPending)
    /\ d \in TickSteps
    /\ ~SweepDue
    /\ Observed(d)
    /\ now' = now + d
    /\ ticks' = IF ticks < MaxTicks THEN ticks + 1 ELSE ticks
    /\ UNCHANGED <<nextSweep, processedSubIdsCache, notificationLog, pc, query,
                   clickData, waitUntil, response, lookupLog, dispatched,
                   notificationResult, fallbackCalls, cacheWrites, arrival, alerts, clsIn, clsOut, auditIn, auditOut, auditHistory, auditRuns, keitaroCall, httpRequest, broadcastCall>>

Sweep ==
    /\ SweepDue
    /\ processedSubIdsCache' =
           [k \in SweepKeeps(processedSubIdsCache, now) |-> processedSubIdsCache[k]]
    /\ nextSweep' = now + CACHE_CLEANUP_INTERVAL
    /\ UNCHANGED <<now, ticks, notificationLog, pc, query, clickData, waitUntil,
                   response, lookupLog, dispatched, notificationResult, fallbackCalls,
                   cacheWrites, arrival, alerts, clsIn, clsOut, auditIn, auditOut, auditHistory, auditRuns, keitaroCall, httpRequest, broadcastCall>>

Next ==
    \/ \E r \in Runs, q \in Queries : Receive(r, q)
    \/ \E r \in Runs, res \in LookupResults : Lookup1(r, res)
    \/ \E r \in Runs, res \in LookupResults : RetryLookup(r, res)
    \/ \E r \in Runs, o \in BroadcastOutcomes : Send(r, o)
    \/ \E r \in Runs, o \in BroadcastOutcomes : FallbackSend(r, o)
    \/ \E d \in TickSteps : Tick(d)
    \/ Sweep

\* the program as long as no exception escapes to the catch block
Spec == Init /\ [][Next]_vars

\* the same pipeline behind the two routes
RoutedNext ==
    \/ \E r \in Runs, req \in Requests : processPostback(r, req)
    \/ \E r \in Runs, res \in LookupResults : Lookup1(r, res)
    \/ \E r \in Runs, res \in LookupResults : RetryLookup(r, res)
    \/ \E r \in Runs, o \in BroadcastOutcomes : Send(r, o)
    \/ \E r \in Runs, o \in BroadcastOutcomes : FallbackSend(r, o)
    \/ \E d \in TickSteps : Tick(d)
    \/ Sweep

SpecRouted == Init /\ [][RoutedNext]_vars

\* the program with exceptions that reach the catch block
NextWithExceptions ==
    \/ Next
    \/ \E r \in Runs, q \in Queries : ReceiveThrows(r, q)
    \/ \E r \in Runs : Throw(r)
    \/ \E r \in Runs, reached \in SUBSET Owners : Catch(r, reached)

SpecWithExceptions == Init /\ [][NextWithExceptions]_vars

\* Scheduling: every collaborator call returns or throws (the lookups are
\* bounded by the 15 s race and the HTTP client's timeouts), every pending
\* timer fires, and a call that can resume does resume.
Fairness ==
    /\ \A r \in Runs :
           /\ WF_vars(\E res \in LookupResults : Lookup1(r, res))
           /\ WF_vars(\E res \in LookupResults : RetryLookup(r, res))
           /\ WF_vars(\E o \in BroadcastOutcomes : Send(r, o))
           /\ WF_vars(\E o \in BroadcastOutcomes : FallbackSend(r, o))
           /\ WF_vars(\E reached \in SUBSET Owners : Catch(r, reached))
    /\ WF_vars(TimerPending /\ Tick(RETRY_WAIT))
    /\ WF_vars(Sweep)

\* the requests of the liveness check: a deposit from a mapped source, a
\* deposit from an unknown source, a registration, a request without status
LiveQueries ==
    { [subid |-> SUBID_A, status |-> STATUS_dep, payout |-> Num(60), from |-> FROM_bettitltr],
      [subid |-> SUBID_A, status |-> STATUS_dep, from |-> FROM_unknown_source],
      [subid |-> SUBID_A, status |-> STATUS_reg, from |-> FROM_bettitltr],
      [subid |-> SUBID_A] }

LiveNext ==
    \/ \E r \in Runs, q \in LiveQueries : Receive(r, q)
    \/ \E r \in Runs, q \in LiveQueries : ReceiveThrows(r, q)
    \/ \E r \in Runs, res \in LookupResults : Lookup1(r, res)
    \/ \E r \in Runs, res \in LookupResults : RetryLookup(r, res)
    \/ \E r \in Runs, o \in BroadcastOutcomes : Send(r, o)
    \/ \E r \in Runs, o \in BroadcastOutcomes : FallbackSend(r, o)
    \/ \E r \in Runs : Throw(r)
    \/ \E r \in Runs, reached \in SUBSET Owners : Catch(r, reached)
    \/ \E d \in TickSteps : Tick(d)
    \/ Sweep

LiveSpec == Init /\ [][LiveNext]_vars /\ Fairness
(***************************************************************************)
(* The status classifier on its own: _validateDepositStatus applied to     *)
(* statuses built from the keyword vocabulary.  A status is up to          *)
(* MaxParts fragments joined by a separator, as sent or in upper case.     *)
(***************************************************************************)
MaxParts == 2

UpperChar(c) ==
    CASE c = "a" -> "A" [] c = "b" -> "B" [] c = "c" -> "C" [] c = "d" -> "D"
      [] c = "e" -> "E" [] c = "f" -> "F" [] c = "g" -> "G" [] c = "h" -> "H"
      [] c = "i" -> "I" [] c = "j" -> "J" [] c = "k" -> "K" [] c = "l" -> "L"
      [] c = "m" -> "M" [] c = "n" -> "N" [] c = "o" -> "O" [] c = "p" -> "P"
      [] c = "q" -> "Q" [] c = "r" -> "R" [] c = "s" -> "S" [] c = "t" -> "T"
      [] c = "u" -> "U" [] c = "v" -> "V" [] c = "w" -> "W" [] c = "x" -> "X"
      [] c = "y" -> "Y" [] c = "z" -> "Z"
      [] OTHER -> c

toUpperCase(s) == [i \in 1..Len(s) |-> UpperChar(s[i])]

StatusFragments ==
    DEPOSIT_KEYWORDS \cup REJECTION_KEYWORDS \cup LEAD_KEYWORDS
    \cup { <<"x">>, <<"o","k">>, <<"d","e">>, <<"p">>, <<"s","a">>, <<"l","e">> }

Separators == { << >>, <<"_">> }

RECURSIVE Joined(_, _)
\* the statuses of exactly n fragments joined by sep
Joined(n, sep) ==
    IF n = 1 THEN StatusFragments
    ELSE { a \o sep \o b : a \in Joined(n - 1, sep), b \in StatusFragments }

StatusInputs ==
    LET plain == UNION { Joined(n, sep) : n \in 1..MaxParts, sep \in Separators }
    IN  plain \cup { toUpperCase(s) : s \in plain } \cup EXACT_VALID_STATUSES

ClassifierInit ==
    /\ PipelineInit
    /\ clsIn \in StatusInputs
    /\ clsOut = << >>
    /\ auditIn = << >>
    /\ auditOut = << >>
    /\ auditHistory = << >>
    /\ auditRuns = << >>
    /\ keitaroCall = [none |-> TRUE]
    /\ httpRequest = [r \in Runs |-> [none |-> TRUE]]
    /\ broadcastCall = [stage |-> "idle", users |-> << >>, next |-> 1, successCount |-> 0,
                        failedCount |-> 0, returned |-> << >>]

ClassifyStatus ==
    /\ clsOut = << >>
    /\ clsOut' = <<_validateDepositStatus(clsIn)>>
    /\ UNCHANGED <<pipelineVars, clsIn, auditIn, auditOut, auditHistory, auditRuns, keitaroCall, httpRequest, broadcastCall>>

ClassifierNext == ClassifyStatus

SpecClassifier == ClassifierInit /\ [][ClassifierNext]_vars

(***************************************************************************)
(* The deposit audit (DepositAuditService), as a harness of its own: the   *)
(* conversions Keitaro lists for the period and the rows of the            *)
(* NotificationLog table are drawn at the start, one step runs the audit.  *)
(***************************************************************************)
\* longest conversion list an audit reads
MaxDeposits == 3
\* most NotificationLog rows of type deposit in the period
MaxNotifications == 2

\* String.prototype.slice(begin, end) with 0 <= begin <= end
slice(str, begin, end) ==
    SubSeq(str, begin + 1, IF end < Len(str) THEN end ELSE Len(str))

\* Math.round of the non-negative quotient num / den: halves round up
MUT_MathRound_floor(num, den) ==
    num \div den

MathRound(num, den) ==
    (2 * num + den) \div (2 * den)

Absent == << >>

SUBID_abc12345x == <<"a","b","c","1","2","3","4","5","x">>
SUBID_abc12345y == <<"a","b","c","1","2","3","4","5","y">>
SUBID_def67890z == <<"d","e","f","6","7","8","9","0","z">>
BUYER_mb07 == <<"m","b","0","7">>
LIT_NA == <<"N","/","A">>

MINUTE == 60 * 1000
HOUR == 60 * MINUTE

\* a conversion in the standardized format: subId, trafficSourceId and
\* datetime, the latter in ms on the clock of the process
ConversionAt(subId, trafficSourceId, datetime) ==
    [subId |-> subId, trafficSourceId |-> trafficSourceId, datetime |-> datetime]

\* a conversion made two hours before the process started
Conversion(subId, trafficSourceId) ==
    ConversionAt(subId, trafficSourceId, 0 - 2 * HOUR)

\* sources 17 and 16 have entries in KNOWN_FB_POSTBACK_SOURCES, source 3 is
\* an FB source without one, source 2 is no FB source
AuditConversions ==
    {Conversion(SUBID_abc12345x, 17),
     ConversionAt(SUBID_abc12345y, 16, 0 - 2 * MINUTE),
     ConversionAt(SUBID_abc12345y, 16, 0 - 5 * MINUTE),
     Conversion(SUBID_def67890z, 3),
     ConversionAt(SUBID_def67890z, 3, 0 - 2 * MINUTE),
     Conversion(Absent, 17),
     Conversion(SUBID_abc12345x, 2)}

\* the metadata a broadcast logs is the deposit data it was given: clickId
\* is the postback's subid, subid1 the buyer id (the click's sub_id_1, 'N/A',
\* or in the fallback the first 8 characters of the subid)
AuditMetadata ==
    {[clickId |-> SUBID_abc12345x, subid1 |-> BUYER_mb07],
     [clickId |-> SUBID_def67890z, subid1 |-> slice(SUBID_def67890z, 0, 8)],
     [subid1 |-> slice(SUBID_abc12345x, 0, 8)]}

AuditRows ==
    {[metadata |-> m, success_count |-> n] : m \in AuditMetadata, n \in {0, 1}}

SeqsUpTo(S, n) == UNION {[1..k -> S] : k \in 0..n}

\* Array.prototype.map
MapSeq(s, F(_)) == [i \in 1..Len(s) |-> F(s[i])]

\* a truthy field of a metadata bag
HasField(metadata, f) == f \in DOMAIN metadata /\ metadata[f] # Absent

_filterFBDeposits(deposits) ==
    LET isFB(deposit) == isFBSource(deposit.trafficSourceId)
    IN  SelectSeq(deposits, isFB)

\* the rows findAll returns (success_count > 0) and the subids read from
\* their metadata
_getSentNotifications(rows) ==
    LET successful(row) == row.success_count > 0
        notifications == SelectSeq(rows, successful)
        named(row) == \/ HasField(row.metadata, "clickId")
                      \/ HasField(row.metadata, "subid")
                      \/ HasField(row.metadata, "sub_id")
        extract(row) ==
            [subid |-> IF HasField(row.metadata, "clickId") THEN row.metadata.clickId
                       ELSE IF HasField(row.metadata, "subid") THEN row.metadata.subid
                       ELSE row.metadata.sub_id,
             success |-> row.success_count]
    IN  [notifications |-> notifications,
         subIds |-> MapSeq(SelectSeq(notifications, named), extract)]

REASON_NON_FB == "Non-FB traffic source"
REASON_NO_MAPPING == "No postback source mapping"
REASON_TOO_RECENT == "Too recent (< 5 min)"
REASON_UNKNOWN == "Unknown - likely postback not received"

\* Object.values(KNOWN_FB_POSTBACK_SOURCES).some(source =>
\*     source.traffic_source_id === trafficSourceId)
hasKnownPostbackSource(trafficSourceId) ==
    \E key \in DOMAIN KNOWN_FB_POSTBACK_SOURCES :
        KNOWN_FB_POSTBACK_SOURCES[key].traffic_source_id = trafficSourceId

\* (now - depositTime) / (1000 * 60), compared with 5
ageBelowMinutes(deposit, minutes) == now - deposit.datetime < minutes * MINUTE

\* mutant: only the first reason that applies is reported
MUT_determineMissingReason_firstOnly(deposit) ==
    IF ~isFBSource(deposit.trafficSourceId) THEN <<REASON_NON_FB>>
    ELSE IF ~hasKnownPostbackSource(deposit.trafficSourceId) THEN <<REASON_NO_MAPPING>>
    ELSE IF ageBelowMinutes(deposit, 5) THEN <<REASON_TOO_RECENT>>
    ELSE <<REASON_UNKNOWN>>

\* mutant: a deposit counts as recent up to and including 5 minutes
MUT_determineMissingReason_inclusive(deposit) ==
    LET reasons ==
            (IF ~isFBSource(deposit.trafficSourceId) THEN <<REASON_NON_FB>> ELSE << >>)
         \o (IF ~hasKnownPostbackSource(deposit.trafficSourceId)
             THEN <<REASON_NO_MAPPING>> ELSE << >>)
         \o (IF ageBelowMinutes(deposit, 5) \/ now - deposit.datetime = 5 * MINUTE
             THEN <<REASON_TOO_RECENT>> ELSE << >>)
    IN  IF Len(reasons) > 0 THEN reasons ELSE <<REASON_UNKNOWN>>

\* the reasons that apply, in the order they are pushed; the string returned
\* is their join(', '), and as no reason contains a comma the list stands
\* for it
_determineMissingReason(deposit) ==
    LET reasons ==
            (IF ~isFBSource(deposit.trafficSourceId) THEN <<REASON_NON_FB>> ELSE << >>)
         \o (IF ~hasKnownPostbackSource(deposit.trafficSourceId)
             THEN <<REASON_NO_MAPPING>> ELSE << >>)
         \o (IF ageBelowMinutes(deposit, 5) THEN <<REASON_TOO_RECENT>> ELSE << >>)
    IN  IF Len(reasons) > 0 THEN reasons ELSE <<REASON_UNKNOWN>>

\* mutant: only the exact match counts
MUT_compareDeposits_exactOnly(keitaroDeposits, sentNotifications) ==
    LET sentSubIds == {sentNotifications.subIds[i].subid :
                           i \in DOMAIN sentNotifications.subIds}
        hasSubId(deposit) == deposit.subId # Absent
        notificationFound(deposit) == deposit.subId \in sentSubIds
        notFound(deposit) == ~notificationFound(deposit)
        sent(deposit) == [subid |-> deposit.subId, status |-> "sent", deposit |-> deposit]
        lost(deposit) == [subid |-> deposit.subId, status |-> "missing", deposit |-> deposit,
                          reason |-> _determineMissingReason(deposit)]
        withSubId == SelectSeq(keitaroDeposits, hasSubId)
    IN  [missing |-> MapSeq(SelectSeq(withSubId, notFound), lost),
         found |-> MapSeq(SelectSeq(withSubId, notificationFound), sent)]

_compareDeposits(keitaroDeposits, sentNotifications) ==
    LET sentSubIds == {sentNotifications.subIds[i].subid :
                           i \in DOMAIN sentNotifications.subIds}
        sentSubId1s == {sentNotifications.notifications[i].metadata.subid1 :
                            i \in {j \in DOMAIN sentNotifications.notifications :
                                     HasField(sentNotifications.notifications[j].metadata, "subid1")}}
        hasSubId(deposit) == deposit.subId # Absent
        notificationFound(deposit) ==
            \/ deposit.subId \in sentSubIds
            \/ slice(deposit.subId, 0, 8) \in sentSubId1s
        notFound(deposit) == ~notificationFound(deposit)
        sent(deposit) == [subid |-> deposit.subId, status |-> "sent", deposit |-> deposit]
        lost(deposit) == [subid |-> deposit.subId, status |-> "missing", deposit |-> deposit,
                          reason |-> _determineMissingReason(deposit)]
        withSubId == SelectSeq(keitaroDeposits, hasSubId)
    IN  [missing |-> MapSeq(SelectSeq(withSubId, notFound), lost),
         found |-> MapSeq(SelectSeq(withSubId, notificationFound), sent)]

\* reason.includes(text) for the three texts the recommendations test:
\* each occurs in exactly one of the four reasons and never across a ', '
reasonIncludes(reason, text) ==
    \E i \in DOMAIN reason :
        \/ text = "postback not received" /\ reason[i] = REASON_UNKNOWN
        \/ text = "postback source mapping" /\ reason[i] = REASON_NO_MAPPING
        \/ text = "Too recent" /\ reason[i] = REASON_TOO_RECENT

\* mutant: nothing is recommended when nothing is missing
MUT_generateRecommendations_noneWhenClean(auditResults) ==
    LET missing == auditResults.missing
        firsts == {i \in DOMAIN missing :
                      \A j \in 1..(i - 1) : missing[j].reason # missing[i].reason}
        isFirst(i) == i \in firsts
        count(reason) == Cardinality({i \in DOMAIN missing : missing[i].reason = reason})
        advised(i) == \/ reasonIncludes(missing[i].reason, "postback not received")
                      \/ reasonIncludes(missing[i].reason, "postback source mapping")
                      \/ reasonIncludes(missing[i].reason, "Too recent")
        advice(i) ==
            LET reason == missing[i].reason
            IN  IF reasonIncludes(reason, "postback not received")
                THEN [type |-> "action", priority |-> "high", count |-> count(reason),
                      action |-> "Check payment system webhook configuration"]
                ELSE IF reasonIncludes(reason, "postback source mapping")
                THEN [type |-> "config", priority |-> "medium", count |-> count(reason),
                      action |-> "Review and add missing postback source mappings"]
                ELSE [type |-> "info", priority |-> "low", count |-> count(reason),
                      action |-> "Re-run audit in 10 minutes"]
        indices == SelectSeq([i \in 1..Len(missing) |-> i], isFirst)
    IN  IF Len(missing) = 0
        THEN << >>
        ELSE MapSeq(SelectSeq(indices, advised), advice)

\* one recommendation for each distinct reason string, in the order of its
\* first finding (the key order of reasonStats), chosen by the first text
\* the string includes; a string that includes none of them yields nothing
_generateRecommendations(auditResults) ==
    LET missing == auditResults.missing
        firsts == {i \in DOMAIN missing :
                      \A j \in 1..(i - 1) : missing[j].reason # missing[i].reason}
        isFirst(i) == i \in firsts
        count(reason) == Cardinality({i \in DOMAIN missing : missing[i].reason = reason})
        advised(i) == \/ reasonIncludes(missing[i].reason, "postback not received")
                      \/ reasonIncludes(missing[i].reason, "postback source mapping")
                      \/ reasonIncludes(missing[i].reason, "Too recent")
        advice(i) ==
            LET reason == missing[i].reason
            IN  IF reasonIncludes(reason, "postback not received")
                THEN [type |-> "action", priority |-> "high", count |-> count(reason),
                      action |-> "Check payment system webhook configuration"]
                ELSE IF reasonIncludes(reason, "postback source mapping")
                THEN [type |-> "config", priority |-> "medium", count |-> count(reason),
                      action |-> "Review and add missing postback source mappings"]
                ELSE [type |-> "info", priority |-> "low", count |-> count(reason),
                      action |-> "Re-run audit in 10 minutes"]
        indices == SelectSeq([i \in 1..Len(missing) |-> i], isFirst)
    IN  IF Len(missing) = 0
        THEN <<[type |-> "success", priority |-> "none", count |-> 0,
                action |-> "none"]>>
        ELSE MapSeq(SelectSeq(indices, advised), advice)

\* what auditDeposits returns when neither fetch throws
auditDeposits(keitaroDeposits, rows) ==
    LET fbDeposits == _filterFBDeposits(keitaroDeposits)
        sentNotifications == _getSentNotifications(rows)
        auditResults == _compareDeposits(fbDeposits, sentNotifications)
    IN  [threw |-> FALSE,
         statistics |->
            [totalKeitaroDeposits |-> Len(keitaroDeposits),
             fbDepositsCount |-> Len(fbDeposits),
             sentNotificationsCount |-> Len(sentNotifications.notifications),
             extractedSubIds |-> Len(sentNotifications.subIds),
             missingNotifications |-> Len(auditResults.missing),
             foundNotifications |-> Len(auditResults.found),
             successRate |->
                 IF Len(fbDeposits) > 0
                 THEN MathRound((Len(fbDeposits) - Len(auditResults.missing)) * 100,
                                Len(fbDeposits))
                 ELSE 100],
         results |-> auditResults,
         recommendations |-> _generateRecommendations(auditResults)]

AuditInit ==
    /\ PipelineInit
    /\ clsIn = << >>
    /\ clsOut = << >>
    /\ auditIn \in [keitaroDeposits : SeqsUpTo(AuditConversions, MaxDeposits),
                    rows : SeqsUpTo(AuditRows, MaxNotifications)]
    /\ auditOut = << >>
    /\ auditHistory = << >>
    /\ auditRuns = << >>
    /\ keitaroCall = [none |-> TRUE]
    /\ httpRequest = [r \in Runs |-> [none |-> TRUE]]
    /\ broadcastCall = [stage |-> "idle", users |-> << >>, next |-> 1, successCount |-> 0,
                        failedCount |-> 0, returned |-> << >>]

\* both fetches return and the report is built
Audit ==
    /\ auditOut = << >>
    /\ auditOut' = <<auditDeposits(auditIn.keitaroDeposits, auditIn.rows)>>
    /\ UNCHANGED <<pipelineVars, clsIn, clsOut, auditIn, auditHistory, auditRuns, keitaroCall, httpRequest, broadcastCall>>

\* the Keitaro or the database fetch throws; auditDeposits rethrows
AuditThrows ==
    /\ auditOut = << >>
    /\ auditOut' = <<[threw |-> TRUE]>>
    /\ UNCHANGED <<pipelineVars, clsIn, clsOut, auditIn, auditHistory, auditRuns, keitaroCall, httpRequest, broadcastCall>>

AuditNext ==
    \/ Audit
    \/ AuditThrows

SpecAudit == AuditInit /\ [][AuditNext]_vars

(***************************************************************************)
(* The audit beside the pipeline: an audit started at any moment reads the *)
(* NotificationLog table the broadcasts have written so far.               *)
(***************************************************************************)
\* the requests of the runs an audit looks back on
AuditedQueries ==
    { [subid |-> SUBID_A, status |-> STATUS_dep, payout |-> Num(60), from |-> FROM_bettitltr],
      [subid |-> SUBID_B, status |-> STATUS_Sale, geo |-> GEO_TR, from |-> FROM_WWA_upper] }

\* what Keitaro lists for the period: the conversions of the two clicks
ListedConversions ==
    { <<Conversion(SUBID_A, 17)>>,
      <<Conversion(SUBID_A, 17), Conversion(SUBID_B, 17)>> }

\* the subids the finished calls have answered as delivered, each with the
\* number of subscribers its broadcast reached
Deliveries ==
    {[subid |-> query[r].subid,
      sent |-> notificationResult[r][Len(notificationResult[r])].sent,
      fallbackUsed |-> fallbackCalls[r] > 0] :
        r \in {s \in Runs : /\ pc[s] = "done"
                             /\ response[s].status = 200
                             /\ notificationResult[s] # << >>
                             /\ notificationResult[s][Len(notificationResult[s])].success}}

\* mutant: the audit logs its own report in the NotificationLog table
MUT_AuditLog_logsItself(conversions) ==
    /\ conversions \in ListedConversions
    /\ auditIn' = [keitaroDeposits |-> conversions, rows |-> notificationLog,
                   deliveries |-> Deliveries, inflight |-> InFlight]
    /\ auditOut' = <<auditDeposits(conversions, notificationLog)>>
    /\ notificationLog' =
           Append(notificationLog,
                  [type |-> "audit", recipient_count |-> 0, success_count |-> 0,
                   failed_count |-> 0, metadata |-> << >>, created_at |-> now])
    /\ UNCHANGED <<now, ticks, nextSweep, processedSubIdsCache, pc, query,
                   clickData, waitUntil, response, lookupLog, dispatched,
                   notificationResult, fallbackCalls, cacheWrites, arrival, alerts,
                   clsIn, clsOut, auditHistory, auditRuns, keitaroCall, httpRequest, broadcastCall>>

\* auditDeposits with the table as it stands when findAll runs
AuditLog(conversions) ==
    /\ conversions \in ListedConversions
    /\ auditIn' = [keitaroDeposits |-> conversions, rows |-> notificationLog,
                   deliveries |-> Deliveries, inflight |-> InFlight]
    /\ auditOut' = <<auditDeposits(conversions, notificationLog)>>
    /\ UNCHANGED <<pipelineVars, clsIn, clsOut, auditHistory, auditRuns, keitaroCall, httpRequest, broadcastCall>>

PipelineAuditNext ==
    \/ \E r \in Runs, q \in AuditedQueries : Receive(r, q)
    \/ \E r \in Runs, res \in LookupResults : Lookup1(r, res)
    \/ \E r \in Runs, res \in LookupResults : RetryLookup(r, res)
    \/ \E r \in Runs, o \in BroadcastOutcomes : Send(r, o)
    \/ \E r \in Runs, o \in BroadcastOutcomes : FallbackSend(r, o)
    \/ \E d \in TickSteps : Tick(d)
    \/ Sweep
    \/ \E conversions \in ListedConversions : AuditLog(conversions)

SpecPipelineAudit == Init /\ [][PipelineAuditNext]_vars

(***************************************************************************)
(* The audit scheduler (AuditSchedulerService): the cron jobs run the      *)
(* daily audit, the weekly audit and the 4-hourly emergency check.         *)
(***************************************************************************)
\* scheduler runs in one behaviour
MaxAudits == 3

maxHistorySize == 100

\* what Keitaro lists and what the table holds when a scheduled audit runs
ScheduledConversions ==
    { << >>,
      <<Conversion(SUBID_abc12345x, 17)>>,
      <<Conversion(SUBID_abc12345x, 17), Conversion(SUBID_def67890z, 3)>> }

ScheduledRows ==
    { << >>,
      <<[metadata |-> [clickId |-> SUBID_abc12345x, subid1 |-> BUYER_mb07],
         success_count |-> 1]>> }

addToHistory(auditRecord) ==
    LET pushed == Append(auditHistory, auditRecord)
    IN  IF Len(pushed) > maxHistorySize
        THEN SubSeq(pushed, Len(pushed) - maxHistorySize + 1, Len(pushed))
        ELSE pushed

\* one scheduler run, as its log lines and its messages to the owners tell
AuditRun(type, threw, skipped, message) ==
    [type |-> type, threw |-> threw, skipped |-> skipped, message |-> message]

\* runDailyAudit and runWeeklyAudit: the report goes to the history and to
\* the owners; an audit that throws is answered by sendErrorNotification
runScheduledAudit(type, conversions, rows, throws) ==
    /\ type \in {"daily", "weekly"}
    /\ Len(auditRuns) < MaxAudits
    /\ IF throws
       THEN /\ auditRuns' = Append(auditRuns, AuditRun(type, TRUE, FALSE, "error"))
            /\ UNCHANGED auditHistory
       ELSE /\ auditHistory' =
                   addToHistory([type |-> type,
                                 results |-> auditDeposits(conversions, rows)])
            /\ auditRuns' = Append(auditRuns, AuditRun(type, FALSE, FALSE, "report"))
    /\ UNCHANGED <<pipelineVars, clsIn, clsOut, auditIn, auditOut, keitaroCall, httpRequest, broadcastCall>>

\* the daily audits of the history with a success rate below 95
recentHistory ==
    SelectSeq(auditHistory,
              LAMBDA h : h.type = "daily" /\ h.results.statistics.successRate < 95)

\* runEmergencyCheck: skipped without two such audits; an alert goes out
\* when today's audit misses something, and an audit that throws is logged
runEmergencyCheck(conversions, rows, throws) ==
    /\ Len(auditRuns) < MaxAudits
    /\ auditRuns' =
          Append(auditRuns,
                 IF Len(recentHistory) < 2
                 THEN AuditRun("emergency", FALSE, TRUE, "none")
                 ELSE IF throws
                 THEN AuditRun("emergency", TRUE, FALSE, "none")
                 ELSE IF auditDeposits(conversions, rows).statistics.missingNotifications > 0
                 THEN AuditRun("emergency", FALSE, FALSE, "alert")
                 ELSE AuditRun("emergency", FALSE, FALSE, "none"))
    /\ UNCHANGED <<pipelineVars, clsIn, clsOut, auditIn, auditOut, auditHistory, keitaroCall, httpRequest, broadcastCall>>

SchedulerNext ==
    \/ \E conversions \in ScheduledConversions, rows \in ScheduledRows, throws \in BOOLEAN :
          runScheduledAudit("daily", conversions, rows, throws)
    \/ \E conversions \in ScheduledConversions, rows \in ScheduledRows, throws \in BOOLEAN :
          runScheduledAudit("weekly", conversions, rows, throws)
    \/ \E conversions \in ScheduledConversions, rows \in ScheduledRows, throws \in BOOLEAN :
          runEmergencyCheck(conversions, rows, throws)

SpecScheduler == Init /\ [][SchedulerNext]_vars

(***************************************************************************)
(* KeitaroService.getClickById on its own: the two Admin API requests it   *)
(* makes and what it hands back to processPostback.                        *)
(***************************************************************************)
\* what a GET on the Admin API ends with: a body, or an axios error with
\* the HTTP status of the response (0 when there was none) and a code
HttpBody(shape, sourceId) ==
    [kind |-> "body", shape |-> shape, sourceId |-> sourceId, status |-> 200,
     code |-> "none"]
HttpError(status, code) ==
    [kind |-> "error", shape |-> "none", sourceId |-> Undefined, status |-> status,
     code |-> code]

HttpErrors ==
    {HttpError(0, "ECONNRESET"), HttpError(0, "ECONNABORTED"), HttpError(500, "none"),
     HttpError(503, "none"), HttpError(404, "none"), HttpError(400, "none")}

\* /campaigns: a list whose first campaign names a traffic source or none,
\* an empty list, a body that is no list, or an error
CampaignsOutcomes ==
    {HttpBody("list", id) : id \in {2, 17, Undefined}}
    \cup {HttpBody("emptyList", Undefined), HttpBody("other", Undefined)}
    \cup HttpErrors

\* /traffic_sources: a list with a source of id 3..17, a list without one
\* (its first source is taken), an empty list, a body that is no list, or
\* an error
TrafficSourcesOutcomes ==
    {HttpBody("list", 17), HttpBody("list", 2), HttpBody("emptyList", Undefined),
     HttpBody("other", Undefined)}
    \cup HttpErrors

NoCall == [none |-> TRUE]

\* the record built from the first campaign (traffic_source_id || 3)
CampaignClick(clickId, outcome) ==
    [kind |-> "found", subid |-> clickId,
     traffic_source_id |-> IF outcome.sourceId = Undefined THEN 3 ELSE outcome.sourceId]

\* the record built from the traffic sources (fbSource?.id || 3)
SourcesClick(clickId, outcome) ==
    [kind |-> "found", subid |-> clickId,
     traffic_source_id |-> IF outcome.sourceId = Undefined THEN 3 ELSE outcome.sourceId]

getClickById(clickId) ==
    /\ keitaroCall = NoCall
    /\ keitaroCall' = [clickId |-> clickId, requests |-> << >>, result |-> << >>]
    /\ UNCHANGED <<pipelineVars, clsIn, clsOut, auditIn, auditOut, auditHistory, auditRuns,
                   httpRequest, broadcastCall>>

\* GET /campaigns returns or fails; a failure is logged and swallowed
CampaignsResponds(outcome) ==
    /\ keitaroCall # NoCall
    /\ keitaroCall.requests = << >>
    /\ keitaroCall' =
          [keitaroCall EXCEPT
             !.requests = Append(@, [endpoint |-> "/campaigns", outcome |-> outcome]),
             !.result = IF outcome.kind = "body" /\ outcome.shape = "list"
                        THEN <<CampaignClick(keitaroCall.clickId, outcome)>>
                        ELSE << >>]
    /\ UNCHANGED <<pipelineVars, clsIn, clsOut, auditIn, auditOut, auditHistory, auditRuns,
                   httpRequest, broadcastCall>>

\* GET /traffic_sources returns or fails; a failure is logged and swallowed,
\* and without a list the call returns null
TrafficSourcesResponds(outcome) ==
    /\ keitaroCall # NoCall
    /\ Len(keitaroCall.requests) = 1
    /\ keitaroCall.result = << >>
    /\ keitaroCall' =
          [keitaroCall EXCEPT
             !.requests = Append(@, [endpoint |-> "/traffic_sources", outcome |-> outcome]),
             !.result = IF outcome.kind = "body" /\ outcome.shape \in {"list", "emptyList"}
                        THEN <<SourcesClick(keitaroCall.clickId, outcome)>>
                        ELSE <<[kind |-> "null", subid |-> keitaroCall.clickId,
                                traffic_source_id |-> Undefined]>>]
    /\ UNCHANGED <<pipelineVars, clsIn, clsOut, auditIn, auditOut, auditHistory, auditRuns,
                   httpRequest, broadcastCall>>

KeitaroNext ==
    \/ \E clickId \in {SUBID_A, SUBID_B} : getClickById(clickId)
    \/ \E outcome \in CampaignsOutcomes : CampaignsResponds(outcome)
    \/ \E outcome \in TrafficSourcesOutcomes : TrafficSourcesResponds(outcome)

SpecKeitaro == Init /\ [][KeitaroNext]_vars

(***************************************************************************)
(* TelegramBotService.sendDepositNotification on its own, one send at a    *)
(* time: the roster is read, each approved user is sent the message in     *)
(* turn, and one NotificationLog row is written.  A roster is given as     *)
(* what sendMessage does for each of its users.                            *)
(***************************************************************************)
\* largest roster getApprovedUsers returns to the loop
MaxRoster == 3
\* broadcasts in a row
MaxBroadcasts == 2

SendResults == {"sent", "throws"}
Rosters == SeqsUpTo(SendResults, MaxRoster)

NoBroadcast ==
    [stage |-> "idle", users |-> << >>, next |-> 1, successCount |-> 0,
     failedCount |-> 0, returned |-> << >>]

\* const users = await UserManagerService.getApprovedUsers()
getApprovedUsers(users) ==
    /\ broadcastCall.stage = "idle"
    /\ Len(broadcastCall.returned) < MaxBroadcasts
    /\ broadcastCall' = [broadcastCall EXCEPT !.stage = "sending", !.users = users,
                                              !.next = 1, !.successCount = 0,
                                              !.failedCount = 0]
    /\ UNCHANGED <<pipelineVars, clsIn, clsOut, auditIn, auditOut, auditHistory, auditRuns,
                   keitaroCall, httpRequest>>

\* mutant: the first send that throws ends the loop
MUT_sendMessage_stopsAtFailure ==
    /\ broadcastCall.stage = "sending"
    /\ broadcastCall.next <= Len(broadcastCall.users)
    /\ broadcastCall' =
          IF broadcastCall.users[broadcastCall.next] = "sent"
          THEN [broadcastCall EXCEPT !.successCount = @ + 1, !.next = @ + 1]
          ELSE [broadcastCall EXCEPT !.failedCount = @ + 1,
                                     !.next = Len(broadcastCall.users) + 1]
    /\ UNCHANGED <<pipelineVars, clsIn, clsOut, auditIn, auditOut, auditHistory, auditRuns,
                   keitaroCall, httpRequest>>

\* one turn of the loop: sendMessage to the next user, counted as a success
\* or, when it throws, as a failure
sendMessage ==
    /\ broadcastCall.stage = "sending"
    /\ broadcastCall.next <= Len(broadcastCall.users)
    /\ broadcastCall' =
          IF broadcastCall.users[broadcastCall.next] = "sent"
          THEN [broadcastCall EXCEPT !.successCount = @ + 1, !.next = @ + 1]
          ELSE [broadcastCall EXCEPT !.failedCount = @ + 1, !.next = @ + 1]
    /\ UNCHANGED <<pipelineVars, clsIn, clsOut, auditIn, auditOut, auditHistory, auditRuns,
                   keitaroCall, httpRequest>>

\* after the loop: NotificationLog.create, and the broadcast returns success
NotificationLogCreate ==
    /\ broadcastCall.stage = "sending"
    /\ broadcastCall.next > Len(broadcastCall.users)
    /\ notificationLog' =
          Append(notificationLog,
                 [type |-> "deposit",
                  recipient_count |-> Len(broadcastCall.users),
                  success_count |-> broadcastCall.successCount,
                  failed_count |-> broadcastCall.failedCount,
                  created_at |-> now])
    /\ broadcastCall' =
          [broadcastCall EXCEPT
             !.stage = "idle",
             !.returned = Append(@, [success |-> TRUE, users |-> broadcastCall.users])]
    /\ UNCHANGED <<now, ticks, nextSweep, processedSubIdsCache, pc, query, clickData,
                   waitUntil, response, lookupLog, dispatched, notificationResult,
                   fallbackCalls, cacheWrites, arrival, alerts, clsIn, clsOut, auditIn,
                   auditOut, auditHistory, auditRuns, keitaroCall, httpRequest>>

\* after the loop: NotificationLog.create throws, and the outer catch
\* returns the failure result
NotificationLogCreateThrows ==
    /\ broadcastCall.stage = "sending"
    /\ broadcastCall.next > Len(broadcastCall.users)
    /\ broadcastCall' =
          [broadcastCall EXCEPT
             !.stage = "idle",
             !.returned = Append(@, [success |-> FALSE, users |-> broadcastCall.users])]
    /\ UNCHANGED <<pipelineVars, clsIn, clsOut, auditIn, auditOut, auditHistory, auditRuns,
                   keitaroCall, httpRequest>>

BroadcastNext ==
    \/ \E users \in Rosters : getApprovedUsers(users)
    \/ sendMessage
    \/ NotificationLogCreate
    \/ NotificationLogCreateThrows

SpecBroadcast == Init /\ [][BroadcastNext]_vars

(***************************************************************************)
(* The vocabulary of the properties                                        *)
(***************************************************************************)
\* the terminal state a finished call reports to the sender
Outcome(r) ==
    IF pc[r] # "done" THEN "RUNNING"
    ELSE IF response[r].status >= 400 THEN "FAILED"
    ELSE IF response[r].message = "Deposit notification sent successfully"
    THEN "DELIVERED"
    ELSE IF response[r].message = "Fallback deposit notification sent successfully"
    THEN "FALLBACK_DELIVERED"
    ELSE "IGNORED"

Received(r) == pc[r] # "idle"

Delivered(r) == Outcome(r) \in {"DELIVERED", "FALLBACK_DELIVERED"}

IgnoredAsDuplicate(r) ==
    /\ Outcome(r) = "IGNORED"
    /\ response[r].status = 200
    /\ response[r].message = "Duplicate SubID - already processed"

\* the call touched nothing: no lookup, no broadcast, no cache write
NoSideEffects(r) ==
    /\ lookupLog[r] = << >>
    /\ dispatched[r] = << >>
    /\ notificationResult[r] = << >>
    /\ cacheWrites[r] = 0

ContainsAny(s, keywords) == \E kw \in keywords : includes(s, kw)

(***************************************************************************)
(* Properties of the status classifier (SpecClassifier)                    *)
(***************************************************************************)
Classified == clsOut # << >>

\* C9: every status whose lower-cased form contains a rejection keyword is
\* rejected, whatever deposit or lead keywords it also contains.
C9_RejectionKeywordRejects ==
    (Classified /\ ContainsAny(toLowerCase(clsIn), REJECTION_KEYWORDS))
        => /\ ~clsOut[1].isValid
           /\ clsOut[1].reason = "contains_rejection_keyword"
           /\ Classification(clsIn) = "reject"

\* a status with a rejection keyword next to a deposit keyword was classified
C9_Witness ==
    /\ Classified
    /\ ContainsAny(toLowerCase(clsIn), REJECTION_KEYWORDS)
    /\ ContainsAny(toLowerCase(clsIn), DEPOSIT_KEYWORDS)
    /\ ~clsOut[1].isValid

\* C10 as stated: every status with a lead keyword and any keyword of the
\* deposit list, and no rejection keyword, is accepted.
C10_LeadWithAnyDepositKeywordAccepted ==
    (/\ Classified
     /\ ContainsAny(toLowerCase(clsIn), LEAD_KEYWORDS)
     /\ ContainsAny(toLowerCase(clsIn), DEPOSIT_KEYWORDS)
     /\ ~ContainsAny(toLowerCase(clsIn), REJECTION_KEYWORDS))
        => clsOut[1].isValid

\* C10, amended: every status with a lead keyword and the literal dep or
\* sale, and no rejection keyword, is accepted.
C10_LeadWithDepOrSaleAccepted ==
    (/\ Classified
     /\ ContainsAny(toLowerCase(clsIn), LEAD_KEYWORDS)
     /\ ContainsAny(toLowerCase(clsIn), {LIT_dep, LIT_sale})
     /\ ~ContainsAny(toLowerCase(clsIn), REJECTION_KEYWORDS))
        => /\ clsOut[1].isValid
           /\ Classification(clsIn) = "accept"

\* a status with a lead keyword and the literal dep was accepted
C10_Witness ==
    /\ Classified
    /\ ContainsAny(toLowerCase(clsIn), LEAD_KEYWORDS)
    /\ includes(toLowerCase(clsIn), LIT_dep)
    /\ ~ContainsAny(toLowerCase(clsIn), REJECTION_KEYWORDS)
    /\ clsOut[1].isValid

(***************************************************************************)
(* Properties of processPostback (Spec)                                    *)
(***************************************************************************)
Click(r) == clickData[r][1]

\* the postback's from parameter, lower-cased, is a key of the mapping
MappedQueries ==
    {q \in Queries : /\ Has(q, "from")
                     /\ toLowerCase(q.from) \in DOMAIN KNOWN_FB_POSTBACK_SOURCES}

FromIsMapped(r) == query[r] \in MappedQueries

MappedSource(q) == KNOWN_FB_POSTBACK_SOURCES[toLowerCase(q.from)]

\* the requests by what the schema and the classifier make of them
MalformedQueries == {q \in Queries : ~postbackSchemaValid(q)}

AcceptedQueries ==
    {q \in Queries : postbackSchemaValid(q) /\ Classification(q.status) = "accept"}

RejectedQueries ==
    {q \in Queries : postbackSchemaValid(q) /\ Classification(q.status) = "reject"}

NonDepositQueries ==
    {q \in Queries : /\ postbackSchemaValid(q)
                     /\ Classification(q.status) \in {"reject", "ignore"}}

\* every broadcast the call started reported success
BroadcastsSucceeded(r) ==
    \A i \in 1..Len(notificationResult[r]) : notificationResult[r][i].success

\* C1: a postback that arrives while its identifier is in the dedup cache
\* with age below the TTL ends as IGNORED (duplicate), with no attribution
\* lookup and no dispatcher invocation.
C1_CachedIdentifierIsIgnored ==
    \A r \in Runs :
        (Received(r) /\ arrival[r].cached /\ arrival[r].age < CACHE_TTL)
            => /\ IgnoredAsDuplicate(r)
               /\ lookupLog[r] = << >>
               /\ dispatched[r] = << >>

\* a delivery of an identifier, and a later postback for it that arrived
\* some time after the cache entry was written and was ignored
C1_Witness ==
    \E r, s \in Runs :
        /\ s < r
        /\ Delivered(s)
        /\ arrival[r].cached
        /\ query[r].subid = query[s].subid
        /\ arrival[r].age > 0
        /\ arrival[r].age < CACHE_TTL
        /\ IgnoredAsDuplicate(r)

\* the request is well-formed, its status is accepted, and the call either
\* never looked the click up or resolved it to an FB source (by a record or
\* by the mapping), and no broadcast it started failed
Deliverable(r) ==
    /\ pc[r] = "done"
    /\ query[r] \in AcceptedQueries
    /\ \/ lookupLog[r] = << >>
       \/ clickData[r] # << >> /\ Click(r).traffic_source_id \in FB_SOURCES
       \/ lookupLog[r] = <<"null", "null">> /\ FromIsMapped(r)
    /\ BroadcastsSucceeded(r)

\* C2: of two calls for the same identifier, the second arriving while the
\* first is still in progress, exactly one delivers and the other ends as
\* IGNORED (duplicate).
C2_ExactlyOneConcurrentRunDelivers ==
    \A r1, r2 \in Runs :
        (/\ r1 \in arrival[r2].inflight
         /\ Deliverable(r1)
         /\ Deliverable(r2)
         /\ query[r1].subid = query[r2].subid)
            => \/ Delivered(r1) /\ IgnoredAsDuplicate(r2)
               \/ Delivered(r2) /\ IgnoredAsDuplicate(r1)

\* C3: a record found on a source outside FB_SOURCES never reaches the
\* dispatcher, whichever lookup found it; the call ends as IGNORED
\* (non-FB source).
C3_NonTargetRecordNeverDispatched ==
    \A r \in Runs :
        (clickData[r] # << >> /\ Click(r).traffic_source_id \notin FB_SOURCES)
            => /\ dispatched[r] = << >>
               /\ notificationResult[r] = << >>
               /\ cacheWrites[r] = 0
               /\ Outcome(r) = "IGNORED"
               /\ response[r].status = 200
               /\ response[r].message = "Postback ignored - non-FB source"

\* the second lookup found a record on a source that is neither FB nor
\* listed as non-FB, and the call was ignored
C3_Witness ==
    \E r \in Runs :
        /\ lookupLog[r] = <<"null", "found">>
        /\ Click(r).traffic_source_id \notin FB_SOURCES \cup NON_FB_SOURCES
        /\ Has(query[r], "payout")
        /\ Outcome(r) = "IGNORED"

\* C4: when the first lookup finds nothing and the second finds a record on
\* an FB source, the fallback is not entered and the dispatcher gets, once,
\* the attribution of that record, not marked as fallback; when the
\* broadcast succeeds the call ends as DELIVERED.
C4_RetryRecordDeliversFullAttribution ==
    \A r \in Runs :
        (/\ lookupLog[r] = <<"null", "found">>
         /\ Click(r).traffic_source_id \in FB_SOURCES)
            => /\ fallbackCalls[r] = 0
               /\ \/ pc[r] = "send" /\ dispatched[r] = << >>
                  \/ /\ pc[r] = "done"
                     /\ Len(dispatched[r]) = 1
                     /\ ~dispatched[r][1].fallbackUsed
                     /\ dispatched[r][1].traffic_source_id = Click(r).traffic_source_id
                     /\ dispatched[r][1].traffic_source_name = Click(r).traffic_source_name
                     /\ dispatched[r][1].campaign_name = Click(r).campaign_name
                     /\ dispatched[r][1].offer_name = Click(r).offer_name
                     /\ dispatched[r][1].subid1 = Click(r).sub_id_1
                     /\ dispatched[r][1].clickId = query[r].subid
                     /\ Outcome(r) = (IF BroadcastsSucceeded(r)
                                      THEN "DELIVERED" ELSE "FAILED")

\* a call waited, found the record on the retry and delivered it
C4_Witness ==
    \E r \in Runs :
        /\ lookupLog[r] = <<"null", "found">>
        /\ Click(r).traffic_source_id \in FB_SOURCES
        /\ now >= RETRY_WAIT
        /\ Outcome(r) = "DELIVERED"
        /\ notificationResult[r][1].sent > 0

\* the one broadcast of the call carried the mapping's source, marked as
\* fallback, with campaign and offer unknown
FallbackDispatched(r) ==
    /\ Len(dispatched[r]) = 1
    /\ dispatched[r][1].fallbackUsed
    /\ dispatched[r][1].traffic_source_id =
           MappedSource(query[r]).traffic_source_id
    /\ dispatched[r][1].traffic_source_name =
           MappedSource(query[r]).name
    /\ dispatched[r][1].campaign_name = "Unknown Campaign (Fallback)"
    /\ dispatched[r][1].offer_name = "Unknown Offer (Fallback)"
    /\ dispatched[r][1].clickId = query[r].subid

\* C5 as stated: when both lookups find nothing and the from parameter is a
\* key of the mapping, the call delivers a fallback-marked notification and
\* ends as FALLBACK_DELIVERED.
C5_MappedFallbackEndsDelivered ==
    \A r \in Runs :
        (lookupLog[r] = <<"null", "null">> /\ FromIsMapped(r) /\ pc[r] = "done")
            => /\ FallbackDispatched(r)
               /\ Outcome(r) = "FALLBACK_DELIVERED"

\* C5, amended: when both lookups find nothing and the from parameter is a
\* key of the mapping, the dispatcher is invoked once with fallback-marked
\* attribution (source from the mapping, campaign and offer unknown); the
\* call ends as FALLBACK_DELIVERED when the broadcast succeeds, and as
\* IGNORED, giving the failed notification as the reason, when it does not.
C5_MappedFallbackDispatches ==
    \A r \in Runs :
        (lookupLog[r] = <<"null", "null">> /\ FromIsMapped(r))
            => /\ fallbackCalls[r] = 1
               /\ \/ pc[r] = "fallbackSend" /\ dispatched[r] = << >>
                  \/ /\ pc[r] = "done"
                     /\ FallbackDispatched(r)
                     /\ IF BroadcastsSucceeded(r)
                        THEN /\ Outcome(r) = "FALLBACK_DELIVERED"
                             /\ cacheWrites[r] = 1
                        ELSE /\ Outcome(r) = "IGNORED"
                             /\ response[r].status = 200
                             /\ response[r].reason = "Telegram notification failed"
                             /\ cacheWrites[r] = 0

\* a postback whose from parameter matches the mapping only after
\* lower-casing was delivered through the fallback
C5_Witness ==
    \E r \in Runs :
        /\ lookupLog[r] = <<"null", "null">>
        /\ FromIsMapped(r)
        /\ query[r].from \notin DOMAIN KNOWN_FB_POSTBACK_SOURCES
        /\ Outcome(r) = "FALLBACK_DELIVERED"

\* C6: when both lookups find nothing and the from parameter is absent or no
\* key of the mapping, the call ends as IGNORED with a 200 response, nothing
\* is dispatched and the dedup cache is not written.
C6_UnmappedFallbackIsIgnored ==
    \A r \in Runs :
        (lookupLog[r] = <<"null", "null">> /\ ~FromIsMapped(r) /\ pc[r] = "done")
            => /\ Outcome(r) = "IGNORED"
               /\ response[r].status = 200
               /\ dispatched[r] = << >>
               /\ cacheWrites[r] = 0

Malformed(r) == Received(r) /\ query[r] \in MalformedQueries

\* C7 as stated: a malformed postback always ends as FAILED with a 4xx
\* response and no side effects, whatever the dedup cache contains.
C7_MalformedAlwaysFails ==
    \A r \in Runs :
        Malformed(r)
            => /\ Outcome(r) = "FAILED"
               /\ response[r].status \in 400..499
               /\ NoSideEffects(r)

\* C7, amended: the dedup check comes first.  A malformed postback has no
\* side effects; it ends as FAILED with a 400 response unless its
\* identifier is in the dedup cache, and then it ends as IGNORED
\* (duplicate).
C7_MalformedFailsUnlessCached ==
    \A r \in Runs :
        Malformed(r)
            => /\ NoSideEffects(r)
               /\ IF arrival[r].cached
                  THEN IgnoredAsDuplicate(r)
                  ELSE /\ Outcome(r) = "FAILED"
                       /\ response[r].status = 400
                       /\ response[r].message = "INVALID_POSTBACK"

\* a malformed postback was refused while the cache held an identifier
C7_Witness ==
    \E r \in Runs :
        /\ Malformed(r)
        /\ DOMAIN processedSubIdsCache # {}
        /\ ~arrival[r].cached
        /\ response[r].status = 400

\* C8: a well-formed postback whose status classifies as reject or ignore
\* ends as IGNORED with a 200 response, with no lookup, no dispatch and no
\* cache write.
C8_NonDepositStatusIsIgnored ==
    \A r \in Runs :
        (Received(r) /\ query[r] \in NonDepositQueries)
            => /\ Outcome(r) = "IGNORED"
               /\ response[r].status = 200
               /\ NoSideEffects(r)

\* a well-formed postback with a rejected status reached the status check
\* and was ignored there
C8_Witness ==
    \E r \in Runs :
        /\ query[r] \in RejectedQueries
        /\ ~arrival[r].cached
        /\ response[r].message = "Postback ignored - invalid status"
        /\ response[r].reason = "contains_rejection_keyword"

\* C11 as stated: a call one of whose lookups threw ends as IGNORED with a
\* 200 response, with nothing dispatched and the dedup cache not written.
C11_LookupErrorIsIgnored ==
    \A r \in Runs :
        (pc[r] = "done" /\ \E i \in 1..Len(lookupLog[r]) : lookupLog[r][i] = "error")
            => /\ Outcome(r) = "IGNORED"
               /\ response[r].status = 200
               /\ dispatched[r] = << >>
               /\ cacheWrites[r] = 0

\* C11, amended: an error of the first lookup ends the call as IGNORED with
\* a 200 response, nothing dispatched, the cache not written.  An error of
\* the retry is only logged and handled as not-found: the fallback is
\* entered, and on a mapped from parameter the dispatcher is invoked with
\* fallback attribution.  In both cases the response is 200.
C11_LookupErrorIgnoredOrFallback ==
    \A r \in Runs :
        /\ lookupLog[r] = <<"error">>
               => /\ Outcome(r) = "IGNORED"
                  /\ response[r].status = 200
                  /\ response[r].message = "Postback ignored - Keitaro API unavailable"
                  /\ dispatched[r] = << >>
                  /\ cacheWrites[r] = 0
                  /\ fallbackCalls[r] = 0
        /\ lookupLog[r] = <<"null", "error">>
               => /\ fallbackCalls[r] = 1
                  /\ clickData[r] = << >>
                  /\ pc[r] \in {"fallbackSend", "done"}
                  /\ pc[r] = "done" => response[r].status = 200
                  /\ (pc[r] = "done" /\ FromIsMapped(r))
                         => /\ FallbackDispatched(r)
                            /\ Outcome(r) = (IF BroadcastsSucceeded(r)
                                             THEN "FALLBACK_DELIVERED" ELSE "IGNORED")
                            /\ cacheWrites[r] = (IF BroadcastsSucceeded(r) THEN 1 ELSE 0)
                  /\ (pc[r] = "done" /\ dispatched[r] = << >>)
                         => Outcome(r) = "IGNORED" /\ cacheWrites[r] = 0

\* the retry threw and the call delivered through the fallback
C11_Witness ==
    \E r \in Runs :
        /\ lookupLog[r] = <<"null", "error">>
        /\ FromIsMapped(r)
        /\ Outcome(r) = "FALLBACK_DELIVERED"

(***************************************************************************)
(* Properties of processPostback with its catch block (SpecWithExceptions) *)
(***************************************************************************)
\* an exception of the call reached the catch block
Escaped(r) == pc[r] = "catch" \/ alerts[r] # << >>

\* the call started a broadcast and the broadcast reported failure
BroadcastFailed(r) == dispatched[r] # << >> /\ ~BroadcastsSucceeded(r)

Is2xx(status) == status \in 200..299

\* C12 as stated: a call whose broadcast reported failure still answers 2xx
\* with an explicit delivery error; only malformed input and an escaped
\* exception are answered with a non-2xx status.
C12_BroadcastFailureAnswers2xx ==
    \A r \in Runs :
        pc[r] = "done"
            => /\ BroadcastFailed(r)
                   => Is2xx(response[r].status) /\ response[r].reason # ""
               /\ ~Is2xx(response[r].status) => (Malformed(r) \/ Escaped(r))

\* C12, amended: a failed broadcast is answered with an explicit delivery
\* error and no cache write: 200 "ignored", reason "Telegram notification
\* failed", on the fallback path, and 500 TELEGRAM_ERROR on the normal
\* path.  A non-2xx status is sent only for malformed input (400), for a
\* failed broadcast on the normal path (500) and for an escaped exception
\* (500).
C12_BroadcastFailureAnswer ==
    \A r \in Runs :
        pc[r] = "done"
            => /\ BroadcastFailed(r)
                   => /\ cacheWrites[r] = 0
                      /\ IF dispatched[r][1].fallbackUsed
                         THEN /\ response[r].status = 200
                              /\ response[r].reason = "Telegram notification failed"
                              /\ Outcome(r) = "IGNORED"
                         ELSE /\ response[r].status = 500
                              /\ response[r].reason = "TELEGRAM_ERROR"
                              /\ response[r].message = "Failed to send notification"
               /\ ~Is2xx(response[r].status)
                   => \/ Malformed(r) /\ response[r].status = 400
                      \/ Escaped(r) /\ response[r].status = 500
                      \/ /\ BroadcastFailed(r)
                         /\ ~dispatched[r][1].fallbackUsed
                         /\ response[r].status = 500

\* a broadcast on the normal path reached a subscriber, then failed, and
\* the sender was answered 500
C12_Witness ==
    \E r \in Runs :
        /\ pc[r] = "done"
        /\ BroadcastFailed(r)
        /\ ~dispatched[r][1].fallbackUsed
        /\ notificationResult[r][1].sent > 0
        /\ response[r].status = 500

\* the step in which the call sends its response
Responds(r) == pc[r] # "done" /\ pc'[r] = "done"

\* C13: a call writes its subid to the dedup cache exactly when its
\* broadcast reported success.  When a call answers DELIVERED or
\* FALLBACK_DELIVERED the cache already holds its subid, written by that
\* call; when it answers anything else the step leaves the cache as it was
\* and the call has written nothing.
C13_CacheWrittenIffBroadcastSucceeded ==
    [][\A r \in Runs :
          Responds(r)
              => /\ Delivered(r)' <=> (dispatched'[r] # << >> /\ BroadcastsSucceeded(r)')
                 /\ IF Delivered(r)'
                    THEN /\ cacheWrites'[r] = 1
                         /\ query[r].subid \in DOMAIN processedSubIdsCache'
                         /\ processedSubIdsCache'[query[r].subid] = now
                    ELSE /\ cacheWrites'[r] = 0
                         /\ processedSubIdsCache' = processedSubIdsCache]_vars

\* one call delivered and marked its subid, another's broadcast failed and
\* left the cache alone
C13_Witness ==
    \E r, s \in Runs :
        /\ Delivered(r)
        /\ cacheWrites[r] = 1
        /\ pc[s] = "done"
        /\ BroadcastFailed(s)
        /\ cacheWrites[s] = 0
        /\ query[s].subid \notin DOMAIN processedSubIdsCache

C15_EscapedExceptionAlertsOwners ==
    \A r \in Runs :
        (Escaped(r) /\ pc[r] = "done")
            => /\ response[r].status = 500
               /\ response[r].message = "Internal server error"
               /\ response[r].reason = "SYSTEM_ERROR"
               /\ Len(alerts[r]) = MaxOwners
               /\ \A i \in 1..MaxOwners : alerts[r][i].owner = i
               /\ cacheWrites[r] = 0

\* an exception was raised after the first lookup; the alert to the first
\* owner failed, the last owner was alerted and the sender was answered
C15_Witness ==
    \E r \in Runs :
        /\ lookupLog[r] = <<"null">>
        /\ Escaped(r)
        /\ pc[r] = "done"
        /\ ~alerts[r][1].delivered
        /\ alerts[r][MaxOwners].delivered
        /\ response[r].status = 500

(***************************************************************************)
(* Properties of the dedup cache's TTL                                     *)
(***************************************************************************)
\* the cache writes so far: the call that writes the cache writes the
\* NotificationLog row of its broadcast in the same step
Insertions ==
    {[subid |-> notificationLog[i].metadata.clickId, at |-> notificationLog[i].created_at]
        : i \in 1..Len(notificationLog)}

\* when the sweep last ran (the process start, before its first run)
LastSweep == nextSweep - CACHE_CLEANUP_INTERVAL

\* C16 as stated: an entry inserted at T is in the cache while now < T + TTL
\* and is not in the cache when now > T + TTL (once every sweep that is due
\* has run).
C16_PresentUntilTTLAbsentAfter ==
    /\ \A e \in Insertions :
           now - e.at < CACHE_TTL => e.subid \in DOMAIN processedSubIdsCache
    /\ ~SweepDue
           => \A k \in DOMAIN processedSubIdsCache :
                  ~(now - processedSubIdsCache[k] > CACHE_TTL)

\* C16, amended: an entry inserted at T is in the cache while
\* now <= T + TTL.  It is not looked at by has; it stays until the first
\* run of the hourly sweep at which it is older than the TTL, so that the
\* cache never holds an entry that was older than the TTL when the sweep
\* last ran, and between T + TTL and that sweep has still returns true.
C16_PresentUntilSweepAfterTTL ==
    /\ \A e \in Insertions :
           now - e.at <= CACHE_TTL
               => /\ e.subid \in DOMAIN processedSubIdsCache
                  /\ processedSubIdsCache[e.subid] >= e.at
    /\ \A k \in DOMAIN processedSubIdsCache :
           ~(LastSweep - processedSubIdsCache[k] > CACHE_TTL)

\* a postback was ignored as a duplicate of an entry older than the TTL
C16_Witness ==
    \E r \in Runs :
        /\ arrival[r].cached
        /\ arrival[r].age > CACHE_TTL
        /\ IgnoredAsDuplicate(r)

\* C16, second case of the amended statement: the sweep has removed an
\* entry that had become older than the TTL
C16_SweptWitness ==
    \E e \in Insertions :
        /\ now - e.at > CACHE_TTL
        /\ e.subid \notin DOMAIN processedSubIdsCache

(***************************************************************************)
(* Properties of the retry                                                 *)
(***************************************************************************)
\* the step in which the call's n-th getClickById returns
LookupReturns(r, n) == Len(lookupLog[r]) = n - 1 /\ Len(lookupLog'[r]) = n

C18_WaitBlocksNoOtherRun ==
    \A r, s \in Runs :
        (r # s /\ pc[r] = "wait" /\ now < waitUntil[r])
            => /\ (pc[s] = "idle" /\ \A u \in Runs : u < s => pc[u] # "idle")
                      => ENABLED (\E q \in Queries : Receive(s, q))
               /\ pc[s] = "lookup1"
                      => ENABLED (\E res \in LookupResults : Lookup1(s, res))
               /\ pc[s] = "send"
                      => ENABLED (\E o \in BroadcastOutcomes : Send(s, o))
               /\ pc[s] = "fallbackSend"
                      => ENABLED (\E o \in BroadcastOutcomes : FallbackSend(s, o))

\* a request arrived while another call was waiting and was delivered
\* before that call's timer fired
C18_Witness ==
    \E r, s \in Runs :
        /\ r \in arrival[s].waiting
        /\ pc[r] = "wait"
        /\ now < waitUntil[r]
        /\ Outcome(s) = "DELIVERED"
        /\ query[s].subid # query[r].subid

(***************************************************************************)
(* Properties of the deposit audit                                         *)
(***************************************************************************)
\* the audit ran and returned its report
Audited == auditOut # << >> /\ ~auditOut[1].threw

\* the conversions of the FB sources the audit read, in the listed order
TargetRecords ==
    SelectSeq(auditIn.keitaroDeposits, LAMBDA d : d.trafficSourceId \in FB_SOURCES)

\* the rows of the period that reached at least one subscriber
DeliveredRows ==
    {auditIn.rows[i] : i \in {j \in DOMAIN auditIn.rows : auditIn.rows[j].success_count > 0}}

\* the full identifiers those rows name
ExactSet ==
    {row.metadata.clickId : row \in {x \in DeliveredRows : "clickId" \in DOMAIN x.metadata}}

\* the 8-character buyer ids those rows name
PrefixSet ==
    {row.metadata.subid1 : row \in {x \in DeliveredRows : "subid1" \in DOMAIN x.metadata}}

\* the first 8 characters of an identifier
First8(id) == [i \in 1..(IF Len(id) < 8 THEN Len(id) ELSE 8) |-> id[i]]

Matched(d) == d.subId \in ExactSet \/ First8(d.subId) \in PrefixSet

\* the findings of one kind, as a set
Findings(kind) ==
    LET list == IF kind = "sent" THEN auditOut[1].results.found
                ELSE auditOut[1].results.missing
    IN  {list[i] : i \in DOMAIN list}

TargetCount == Len(TargetRecords)
UncoveredCount ==
    Cardinality({i \in DOMAIN TargetRecords : ~Matched(TargetRecords[i])})

\* every conversion of an FB source carries its subid
AllIdentified == \A i \in DOMAIN TargetRecords : TargetRecords[i].subId # Absent

RecordsOf(delivery) ==
    {TargetRecords[i] : i \in {j \in DOMAIN TargetRecords :
                                  TargetRecords[j].subId = delivery.subid}}

ReportedAs(d, kind) == \E f \in Findings(kind) : f.deposit = d

OnlyAgeCounts(f) ==
    /\ f.deposit.trafficSourceId \in FB_SOURCES
    /\ \E key \in DOMAIN KNOWN_FB_POSTBACK_SOURCES :
          KNOWN_FB_POSTBACK_SOURCES[key].traffic_source_id = f.deposit.trafficSourceId

\* the age of a finding's conversion when the audit ran, in ms
AgeOf(f) == now - f.deposit.datetime

\* C22: a missing finding to which no other reason applies is reported as
\* too recent when its conversion is 2 minutes old and as postback not
\* received when it is 2 hours old; it is too recent exactly when it is
\* less than 5 minutes old.
C22_CauseByAge ==
    Audited =>
        \A f \in Findings("missing") :
            OnlyAgeCounts(f) =>
                /\ AgeOf(f) = 2 * 60 * 1000 => f.reason = <<"Too recent (< 5 min)">>
                /\ AgeOf(f) = 2 * 60 * 60 * 1000
                      => f.reason = <<"Unknown - likely postback not received">>
                /\ IF AgeOf(f) < 5 * 60 * 1000
                   THEN f.reason = <<"Too recent (< 5 min)">>
                   ELSE f.reason = <<"Unknown - likely postback not received">>

\* one audit reports a 2 minutes old conversion as too recent and a 2 hours
\* old one as postback not received, and one reports a conversion of
\* exactly 5 minutes
C22_Witness ==
    /\ Audited
    /\ \E f, g \in Findings("missing") :
          /\ OnlyAgeCounts(f) /\ AgeOf(f) = 2 * 60 * 1000
          /\ f.reason = <<"Too recent (< 5 min)">>
          /\ OnlyAgeCounts(g) /\ AgeOf(g) = 2 * 60 * 60 * 1000
          /\ g.reason = <<"Unknown - likely postback not received">>

\* the conditions of the three reasons, for the conversion of a finding
IsNonTarget(f) == f.deposit.trafficSourceId \notin FB_SOURCES
LacksMapping(f) ==
    \A key \in DOMAIN KNOWN_FB_POSTBACK_SOURCES :
        KNOWN_FB_POSTBACK_SOURCES[key].traffic_source_id # f.deposit.trafficSourceId
IsRecent(f) == AgeOf(f) < 5 * 60 * 1000

\* C23 as stated: every missing finding carries exactly one cause, the
\* first that applies of non-target, no mapping, too recent, and postback
\* not received when none does.
C23_OneCauseByPriority ==
    Audited =>
        \A f \in Findings("missing") :
            f.reason = IF IsNonTarget(f) THEN <<"Non-FB traffic source">>
                       ELSE IF LacksMapping(f) THEN <<"No postback source mapping">>
                       ELSE IF IsRecent(f) THEN <<"Too recent (< 5 min)">>
                       ELSE <<"Unknown - likely postback not received">>

\* C23: every missing finding carries all the causes that apply of
\* non-target, no mapping, too recent, each once and in that order, and
\* postback not received alone when none applies.
C23_AllCausesInOrder ==
    Audited =>
        \A f \in Findings("missing") :
            LET applies(c) == CASE c = "Non-FB traffic source" -> IsNonTarget(f)
                                [] c = "No postback source mapping" -> LacksMapping(f)
                                [] c = "Too recent (< 5 min)" -> IsRecent(f)
                                [] OTHER -> FALSE
                order == <<"Non-FB traffic source", "No postback source mapping",
                           "Too recent (< 5 min)">>
                rank(c) == CHOOSE i \in 1..3 : order[i] = c
            IN  IF \E i \in 1..3 : applies(order[i])
                THEN /\ \A i \in 1..3 :
                            applies(order[i]) <=> \E j \in DOMAIN f.reason : f.reason[j] = order[i]
                     /\ \A j \in DOMAIN f.reason : \E i \in 1..3 : f.reason[j] = order[i]
                     /\ \A j, k \in DOMAIN f.reason :
                            j < k => rank(f.reason[j]) < rank(f.reason[k])
                ELSE f.reason = <<"Unknown - likely postback not received">>

\* a missing finding of a recent conversion whose source has no mapping is
\* reported with both causes
C23_Witness ==
    /\ Audited
    /\ \E f \in Findings("missing") :
          /\ LacksMapping(f) /\ IsRecent(f)
          /\ f.reason = <<"No postback source mapping", "Too recent (< 5 min)">>

\* the recommendations of the report, as a set
Recommendations ==
    {auditOut[1].recommendations[i] : i \in DOMAIN auditOut[1].recommendations}

NothingMissing == auditOut[1].statistics.missingNotifications = 0

\* C24 as stated: a report with nothing missing carries no recommendation.
C24_NoRecommendationWhenClean ==
    (Audited /\ NothingMissing) => auditOut[1].recommendations = << >>

\* C24: a report with nothing missing carries exactly one entry in its
\* recommendations, the all-clear of type success, and none that asks for
\* an action, a configuration change or a later run.
C24_OnlyAllClearWhenClean ==
    (Audited /\ NothingMissing) =>
        /\ Len(auditOut[1].recommendations) = 1
        /\ auditOut[1].recommendations[1].type = "success"
        /\ \A rec \in Recommendations : rec.type \notin {"action", "config", "info"}

\* an audit of two conversions, both found, reports the all-clear
C24_Witness ==
    /\ Audited
    /\ NothingMissing
    /\ TargetCount = 2
    /\ auditOut[1].statistics.foundNotifications = 2
    /\ \E rec \in Recommendations : rec.type = "success"

\* some missing finding has the cause as the first that applies to it
SomeFindingHas(cause) ==
    \E f \in Findings("missing") : f.reason[1] = cause

\* how many recommendations of a type the report carries
RecommendationsOf(type) ==
    Cardinality({i \in DOMAIN auditOut[1].recommendations :
                    auditOut[1].recommendations[i].type = type})

\* C25: a report with a finding that lacks a source mapping recommends
\* reviewing the mapping, one with a finding whose postback was not received
\* recommends checking the webhook, one with a too recent finding recommends
\* a later run, and no cause is recommended on twice.
C25_OneRecommendationPerCause ==
    Audited =>
        /\ SomeFindingHas("No postback source mapping") => RecommendationsOf("config") >= 1
        /\ SomeFindingHas("Unknown - likely postback not received")
              => RecommendationsOf("action") >= 1
        /\ SomeFindingHas("Too recent (< 5 min)") => RecommendationsOf("info") >= 1
        /\ \A type \in {"config", "action", "info"} : RecommendationsOf(type) <= 1

(***************************************************************************)
(* Properties of the audit scheduler (SpecScheduler)                       *)
(***************************************************************************)
\* C26: a scheduled audit that throws (Keitaro or the database failed)
\* sends the owners no report and no alert, and tells them of the failure,
\* on the daily, the weekly and the emergency trigger alike.
C26_FailedAuditIsReportedAsFailure ==
    \A i \in DOMAIN auditRuns :
        auditRuns[i].threw => auditRuns[i].message = "error"

\* a step of an audit: the audit's input or report changes
AuditStep == auditIn' # auditIn \/ auditOut' # auditOut

\* C27: a step of an audit writes nothing: the dedup cache, the
\* NotificationLog table, and the position, the lookups, the broadcasts and
\* the response of every call of processPostback are as before, whether
\* calls are in flight or another audit has run.
C27_AuditWritesNothing ==
    [][AuditStep =>
          /\ processedSubIdsCache' = processedSubIdsCache
          /\ notificationLog' = notificationLog
          /\ UNCHANGED pipelineVars]_vars

\* an audit ran while a call was in flight; the call went on to deliver, to
\* write the table and to mark its subid
C27_Witness ==
    /\ Audited
    /\ \E r \in auditIn.inflight :
          /\ Outcome(r) = "DELIVERED"
          /\ query[r].subid \in DOMAIN processedSubIdsCache
          /\ Len(notificationLog) > Len(auditIn.rows)
          /\ query[r].subid \notin {d.subid : d \in auditIn.deliveries}

(***************************************************************************)
(* Properties of the fallback source mapping                               *)
(***************************************************************************)
\* C28: a call that enters the fallback goes on to the broadcast exactly
\* when its from parameter, lower-cased, is a key of
\* KNOWN_FB_POSTBACK_SOURCES; with any other from parameter, an absent one
\* included, it broadcasts nothing and answers with the reason that names
\* the unknown source and lists the known ones.
C28_ResolvedIffMappingKey ==
    \A r \in Runs :
        fallbackCalls[r] > 0 =>
            IF FromIsMapped(r)
            THEN pc[r] = "fallbackSend" \/ Len(dispatched[r]) = 1
            ELSE /\ pc[r] = "done"
                 /\ dispatched[r] = << >>
                 /\ response[r].reason = "Unknown postback source"

(***************************************************************************)
(* Properties of getClickById (SpecKeitaro)                                *)
(***************************************************************************)
\* the call has returned
Returned == keitaroCall # NoCall /\ keitaroCall.result # << >>

\* a request failed on the network or with a 5xx answer
PlatformFailure(request) ==
    /\ request.outcome.kind = "error"
    /\ \/ request.outcome.status >= 500
       \/ request.outcome.code \in {"ECONNRESET", "ECONNABORTED"}

\* C29: a request that fails on the network or with a 5xx answer is tried
\* again, and a call whose last request failed so hands its caller an
\* error, never null.
C29_PlatformFailureIsNotNull ==
    Returned =>
        LET requests == keitaroCall.requests
        IN  /\ \A i \in DOMAIN requests :
                  PlatformFailure(requests[i])
                      => \/ \E j \in DOMAIN requests :
                               j > i /\ requests[j].endpoint = requests[i].endpoint
                         \/ keitaroCall.result[1].kind = "error"
            /\ PlatformFailure(requests[Len(requests)])
                  => keitaroCall.result[1].kind # "null"

(***************************************************************************)
(* Properties of the two routes (SpecRouted)                               *)
(***************************************************************************)
\* the fields a request carries, wherever it carries them
FieldsOf(r) ==
    IF httpRequest[r].method = "GET" THEN httpRequest[r].query ELSE httpRequest[r].body

Routed(r) == httpRequest[r] # NoRequest

\* C30: two requests with the same fields, one carrying them in its query
\* string and one in its body, get the same verdict on those fields: either
\* both are refused as malformed or neither is.
C30_SameVerdictForQueryAndBody ==
    \A r, s \in Runs :
        (Routed(r) /\ Routed(s) /\ FieldsOf(r) = FieldsOf(s))
            => (response[r].status = 400 <=> response[s].status = 400)

\* C31: a request with an identifier, a status and a payout that is a
\* number >= 0 (0 included) is not refused as malformed.
C31_ZeroPayoutPassesValidation ==
    \A r \in Runs :
        ( /\ Received(r)
          /\ Has(query[r], "subid") /\ Len(query[r].subid) > 0
          /\ Has(query[r], "status") /\ Len(query[r].status) > 0
          /\ Has(query[r], "payout")
          /\ query[r].payout.isNumber /\ query[r].payout.value >= 0
          /\ Has(query[r], "geo") => Len(query[r].geo) = 2 )
            => response[r].status # 400

\* a step of the sweep: only the sweep re-arms its own timer
SweepStep == nextSweep' # nextSweep

\* C32: a sweep removes exactly the entries older than the TTL and leaves
\* every other entry with its timestamp; no step of any operation removes
\* an entry that is not older than the TTL.
C32_SweepRemovesExactlyExpired ==
    [][ /\ SweepStep =>
              /\ DOMAIN processedSubIdsCache' =
                    {k \in DOMAIN processedSubIdsCache :
                        ~(now - processedSubIdsCache[k] > CACHE_TTL)}
              /\ \A k \in DOMAIN processedSubIdsCache' :
                    processedSubIdsCache'[k] = processedSubIdsCache[k]
        /\ \A k \in DOMAIN processedSubIdsCache :
              k \notin DOMAIN processedSubIdsCache'
                  => now - processedSubIdsCache[k] > CACHE_TTL ]_vars

\* a sweep has removed an expired entry and kept a younger one
C32_Witness ==
    /\ \E e \in Insertions :
          /\ now - e.at > CACHE_TTL
          /\ e.subid \notin DOMAIN processedSubIdsCache
    /\ \E k \in DOMAIN processedSubIdsCache :
          now - processedSubIdsCache[k] <= CACHE_TTL

(***************************************************************************)
(* Further properties of the status classifier (SpecClassifier)            *)
(***************************************************************************)
\* the status has a lead keyword, neither literal of the override and no
\* rejection keyword
LeadWithoutOverride ==
    /\ ContainsAny(toLowerCase(clsIn), LEAD_KEYWORDS)
    /\ ~ContainsAny(toLowerCase(clsIn), {LIT_dep, LIT_sale})
    /\ ~ContainsAny(toLowerCase(clsIn), REJECTION_KEYWORDS)

\* C33: a status with a lead keyword, without dep and sale and without a
\* rejection keyword is ignored as a lead, whatever other deposit keyword
\* it contains.
C33_OnlyDepOrSaleOverridesLead ==
    (Classified /\ LeadWithoutOverride)
        => /\ ~clsOut[1].isValid
           /\ clsOut[1].reason = "is_lead_or_registration"
           /\ Classification(clsIn) = "ignore"

\* such a status that also carries another deposit keyword was ignored
C33_Witness ==
    /\ Classified
    /\ LeadWithoutOverride
    /\ ContainsAny(toLowerCase(clsIn), DEPOSIT_KEYWORDS)
    /\ clsOut[1].reason = "is_lead_or_registration"

\* _validateDepositStatus with its fourth step taken out
WithoutLegacyStep(status) ==
    LET statusLower == toLowerCase(status) IN
    IF ContainsAny(statusLower, REJECTION_KEYWORDS)
    THEN [isValid |-> FALSE, reason |-> "contains_rejection_keyword"]
    ELSE IF /\ ContainsAny(statusLower, LEAD_KEYWORDS)
            /\ ~ContainsAny(statusLower, {LIT_dep, LIT_sale})
    THEN [isValid |-> FALSE, reason |-> "is_lead_or_registration"]
    ELSE IF ContainsAny(statusLower, DEPOSIT_KEYWORDS)
    THEN [isValid |-> TRUE, reason |-> "contains_deposit_keyword"]
    ELSE [isValid |-> FALSE, reason |-> "no_deposit_indicators"]

\* C39: the legacy step decides nothing: every status of the legacy list is
\* accepted by the deposit keywords, the result is the one the classifier
\* gives without the legacy step, and the reason exact_match_legacy is never
\* produced.
C39_LegacyStepNeverDecides ==
    Classified
        => /\ clsOut[1].reason # "exact_match_legacy"
           /\ clsOut[1] = WithoutLegacyStep(clsIn)
           /\ clsIn \in EXACT_VALID_STATUSES
                 => /\ clsOut[1].isValid
                    /\ clsOut[1].reason = "contains_deposit_keyword"

\* a status of the legacy list was accepted for its deposit keyword
C39_Witness ==
    /\ Classified
    /\ clsIn \in EXACT_VALID_STATUSES
    /\ Len(clsIn) > 10
    /\ clsOut[1].reason = "contains_deposit_keyword"

\* C34: the conversions of the FB sources are partitioned into found and
\* missing: each is in exactly one of the two lists, so that
\* foundNotifications + missingNotifications = fbDepositsCount.
C34_FoundAndMissingPartitionTargets ==
    Audited =>
        LET stats == auditOut[1].statistics
        IN  /\ stats.fbDepositsCount = TargetCount
            /\ stats.foundNotifications + stats.missingNotifications = stats.fbDepositsCount
            /\ \A i \in DOMAIN TargetRecords :
                  (\E f \in Findings("sent") : f.deposit = TargetRecords[i])
                      # (\E f \in Findings("missing") : f.deposit = TargetRecords[i])

\* C35: a conversion of an FB source is reported as sent only if a call had
\* delivered that same subid to at least one subscriber when the audit ran;
\* a delivery of another subid never makes it count as sent.
C35_SentOnlyIfThatSubidWasDelivered ==
    Audited =>
        \A i \in DOMAIN TargetRecords :
            ReportedAs(TargetRecords[i], "sent")
                => \E delivery \in auditIn.deliveries :
                      /\ delivery.subid = TargetRecords[i].subId
                      /\ delivery.sent > 0

(***************************************************************************)
(* Properties of the dispatch and the cache mark (Spec)                    *)
(***************************************************************************)
\* C36: a call marks its subid in the cache only after a broadcast of its
\* own that reached at least one subscriber; a broadcast to an empty roster,
\* or one whose every send failed, marks nothing.
C36_MarkedOnlyAfterSomeoneWasReached ==
    \A r \in Runs :
        cacheWrites[r] > 0
            => \E i \in DOMAIN notificationResult[r] : notificationResult[r][i].sent >= 1

\* C37: when a broadcast returns a failure result, no subscriber has been
\* sent the notification in that broadcast.
C37_FailureResultMeansNobodyReached ==
    \A r \in Runs : \A i \in DOMAIN notificationResult[r] :
        ~notificationResult[r][i].success => notificationResult[r][i].sent = 0

(***************************************************************************)
(* Properties of the broadcast loop (SpecBroadcast)                        *)
(***************************************************************************)
\* the broadcasts that returned success, in order
CompletedBroadcasts ==
    SelectSeq(broadcastCall.returned, LAMBDA b : b.success)

\* how many users of a roster sendMessage does what for
CountOf(users, result) == Cardinality({i \in DOMAIN users : users[i] = result})

\* C38: each completed broadcast has appended exactly one row; the row's
\* recipient_count is the size of the roster read at the start and equals
\* success_count + failed_count, and every user of the roster was tried:
\* success_count counts every user the message could be sent to, also those
\* after one for whom the send failed.
C38_OneRowPerBroadcastCountsAddUp ==
    /\ Len(notificationLog) = Len(CompletedBroadcasts)
    /\ \A i \in DOMAIN notificationLog :
          LET row == notificationLog[i]
              users == CompletedBroadcasts[i].users
          IN  /\ row.recipient_count = row.success_count + row.failed_count
              /\ row.recipient_count = Len(users)
              /\ row.success_count = CountOf(users, "sent")
              /\ row.failed_count = CountOf(users, "throws")

\* a broadcast in which a send failed and a later one succeeded has been
\* logged, and a second broadcast after it as well
C38_Witness ==
    /\ Len(notificationLog) = 2
    /\ \E i \in DOMAIN notificationLog :
          /\ notificationLog[i].failed_count >= 1
          /\ notificationLog[i].success_count >= 1
          /\ \E j, k \in DOMAIN CompletedBroadcasts[i].users :
                /\ j < k
                /\ CompletedBroadcasts[i].users[j] = "throws"
                /\ CompletedBroadcasts[i].users[k] = "sent"

=============================================================================
